---- MODULE Spec2Model ----
(***************************************************************************)
(* Model of the WebSearch MCP server (MCP/websearch/websearch): the search *)
(* orchestrator web_search, the retrying HTTP GET, and the page fetcher    *)
(* with its headless-browser fallback.                                     *)
(*                                                                         *)
(* A URL string is modelled by its parts (what urlparse yields):           *)
(*   scheme, host, port, path (segments + trailing slash), query pairs.    *)
(* A query value is either plain text (field v) or a URL (field u, a       *)
(* sequence holding that URL), as in the uddg= parameter of a redirector.  *)
(***************************************************************************)
EXTENDS Integers, Sequences, FiniteSets, TLC

VARIABLES
    cfg,            \* _RUNTIME_CONFIG after init_runtime
    pc,             \* web_search: "idle", "gather", "done", "raised"
    query,          \* web_search: the query of the current call
    use_ai,         \* web_search: use_ai
    ai_task,        \* web_search: the task running _ai_search_async
    browser_task,   \* web_search: the task running _browser_search_async
    trace,          \* history of this call: the requests issued and how each ended
    env_links,      \* number of links the backends delivered in this call
    result,         \* web_search: the returned dict
    http_pc,        \* _curl_get_with_retries: "idle", "get", "sleep", "returned", "raised"
    retries,        \* _curl_get_with_retries: the retries argument
    attempt,        \* _curl_get_with_retries: the loop variable
    effective_timeout_s, \* _curl_get_with_retries: the timeout of the next attempt
    http_log,       \* how each curl_requests.get of this call ended, in order
    http_out,       \* _curl_get_with_retries: the response returned or the error raised
    fetch_pc,       \* fetch: "idle", "playwright" (awaiting _fetch_with_playwright), "done"
    fetch_entry,    \* the function called: "fetch" or "_fetch_with_playwright"
    fetch_url,      \* the url argument
    fetch_mode,     \* the mode argument ("markdown" for the fetch tool)
    fetch_why,      \* fetch: which of its three calls of _fetch_with_playwright is awaited
    fetch_result,   \* fetch: the local result, <<>> while unset
    fetch_log,      \* the requests this call issued, in order
    fetch_ret,      \* the dict returned to the caller, <<>> before the return
    pw_result,      \* fetch: the dict the awaited _fetch_with_playwright returned, <<>> if none
    pw_pc,          \* _fetch_with_playwright: the statement about to run
    pw_mode,        \* _fetch_with_playwright: the mode argument
    browser,        \* the browser of this call: "none", "open", "closed", "close_raised"
    context,        \* the context of this call: "none", "open", "closed", "close_raised"
    pw_html,        \* _fetch_with_playwright: html
    pw_pending,     \* the return value or exception leaving the try blocks, <<>> if none
    pw_ret,         \* _fetch_with_playwright: the dict returned, <<>> before the return
    call_fn,        \* the helper function called last, "" before any call
    call_arg,       \* its argument
    call_ret,       \* what it returned
    _CACHE,         \* noise_rules._CACHE: <<>> for None, else <<the cached rules>>
    loader,         \* per worker thread: where it is in load_noise_rules, its locals
    rule_reads,     \* how often the rule files were read since process start
    cache_writes,   \* how often _CACHE was assigned since process start
    _RUNTIME_CONFIG, \* config._RUNTIME_CONFIG: <<>> for None, else <<the AppConfig>>
    _LOGGING_READY, \* config._LOGGING_READY
    root_handlers,  \* logging.getLogger().handlers
    runtime_ret,    \* the config function called last and how it ended, <<>> before any
    completed_inits \* init_runtime calls completed since start or the last reset

searchVars == <<pc, query, use_ai, ai_task, browser_task, trace, env_links, result>>
httpVars == <<http_pc, retries, attempt, effective_timeout_s, http_log, http_out>>
fetchVars ==
    <<fetch_pc, fetch_entry, fetch_url, fetch_mode, fetch_why, fetch_result, fetch_log, fetch_ret,
      pw_result>>
browserVars == <<pw_pc, pw_mode, browser, context, pw_html, pw_pending, pw_ret>>
libVars == <<call_fn, call_arg, call_ret>>
noiseVars == <<_CACHE, loader, rule_reads, cache_writes>>
runtimeVars == <<_RUNTIME_CONFIG, _LOGGING_READY, root_handlers, runtime_ret, completed_inits>>
procVars == <<noiseVars, runtimeVars>>
vars == <<cfg, searchVars, httpVars, fetchVars, browserVars, libVars, procVars>>

----------------------------------------------------------------------------
(* Bounds *)

\* Total number of link mentions the LLM reply and the scraped pages deliver
\* during one web_search call.
MaxLinks == 3

\* Largest retries argument of _curl_get_with_retries.
MaxRetries == 3

----------------------------------------------------------------------------
(* Generic helpers *)

SeqsUpTo(S, n) == UNION {[1..k -> S] : k \in 0..n}

Min(a, b) == IF a < b THEN a ELSE b

Max(a, b) == IF a > b THEN a ELSE b

Take(s, n) == SubSeq(s, 1, Min(Len(s), n))

RECURSIVE IsSubseq(_, _)
\* s is an order-preserving subsequence of t
IsSubseq(s, t) ==
    IF s = <<>> THEN TRUE
    ELSE IF t = <<>> THEN FALSE
    ELSE IF Head(s) = Head(t) THEN IsSubseq(Tail(s), Tail(t))
    ELSE IsSubseq(s, Tail(t))

----------------------------------------------------------------------------
(* URL strings *)

PathOf(segs, slash) == [segs |-> segs, slash |-> slash]

Param(k, v) == [k |-> k, v |-> v, u |-> <<>>]

Redirect(k, target) == [k |-> k, v |-> "", u |-> <<target>>]

MkUrl(scheme, host, port, path, q) ==
    [scheme |-> scheme, host |-> host, port |-> port, path |-> path, query |-> q]

\* the empty string
EmptyUrl == MkUrl("", "", "", PathOf(<<>>, FALSE), <<>>)

\* a string that is no URL at all (no scheme, no host)
TextUrl(v) == MkUrl("", "", "", PathOf(<<v>>, FALSE), <<>>)

\* str.lower() on the strings the model uses
Lower(s) ==
    CASE s = "HTTP" -> "http"
      [] s = "HTTPS" -> "https"
      [] s = "A.COM" -> "a.com"
      [] s = "UTM_SOURCE" -> "utm_source"
      [] s = "Share_Id" -> "share_id"
      [] s = "OFF" -> "off"
      [] s = "Speed" -> "speed"
      [] s = "X" -> "x"
      [] OTHER -> s

\* a filter that lets every string pass
StartsWithAnything(url) == TRUE

\* url.startswith("http"): the scheme is the head of the string
StartsWithHttp(url) == url.scheme \in {"http", "https", "httpx"}

\* the "//host/..." -> "https://host/..." upgrade
UpgradeProtocolRelative(url) ==
    IF url.scheme = "" /\ url.host # "" THEN [url EXCEPT !.scheme = "https"] ELSE url

\* parse_qsl(query, keep_blank_values=False)
ParseQsl(q) == SelectSeq(q, LAMBDA p : p.v # "" \/ p.u # <<>>)

\* dict(pairs).get(key): the last pair of that key wins; <<>> when absent
DictGet(pairs, key) ==
    LET idx == {i \in 1..Len(pairs) : pairs[i].k = key}
    IN IF idx = {} THEN <<>>
       ELSE <<pairs[CHOOSE i \in idx : \A j \in idx : j <= i]>>

\* target and isinstance(target, str) and target.startswith("http")
HttpTarget(found) ==
    IF found # <<>> /\ found[1].u # <<>> /\ StartsWithHttp(found[1].u[1])
    THEN found[1].u ELSE <<>>

\* params.get(a) or params.get(b)
GetOr(pairs, a, b) == IF DictGet(pairs, a) # <<>> THEN DictGet(pairs, a) ELSE DictGet(pairs, b)

HostEndsWith(host, suffix) ==
    \/ host = suffix
    \/ suffix = "duckduckgo.com" /\ host \in {"html.duckduckgo.com"}
    \/ suffix = "search.brave.com" /\ host \in {"r.search.brave.com"}
    \/ suffix = "google.com" /\ host \in {"www.google.com"}
    \/ suffix = "youtube.com" /\ host \in {"www.youtube.com"}
    \/ suffix = "zhihu.com" /\ host \in {"www.zhihu.com", "zhuanlan.zhihu.com", "link.zhihu.com"}

PathStartsWith(path, seg) ==
    /\ path.segs # <<>>
    /\ path.segs[1] = seg

\* path.startswith("/l/"): first segment "l" followed by a slash
PathStartsWithDir(path, seg) ==
    /\ PathStartsWith(path, seg)
    /\ (Len(path.segs) > 1 \/ path.slash)

PathContains(path, word) == \E i \in 1..Len(path.segs) : path.segs[i] = word

_TRACKING_QUERY_KEYS ==
    {"utm_source", "utm_medium", "utm_campaign", "utm_term", "utm_content",
     "utm_id", "gclid", "fbclid", "igshid", "spm", "spm_id_from",
     "from", "from_source", "source", "sourcefrom",
     "share_source", "share_medium", "share_platform", "share_id",
     "share_from", "shareuid", "scene", "platform",
     "ref", "refer", "ref_source", "referrer",
     "vd_source", "_t", "_r", "mpshare"}

_REDIRECT_PARAM_CANDIDATES ==
    <<"uddg", "target", "url", "q", "u", "to", "dest", "destination", "redir", "redirect">>

\* lexicographic order of the strings that occur as query keys and values
StringOrder ==
    <<"", "1", "2", "id", "page", "q", "share_token", "share_type", "t", "target", "u", "uddg",
      "url", "utm_name", "utm_reader", "utm_source">>

Rank(s) ==
    IF \E i \in 1..Len(StringOrder) : StringOrder[i] = s
    THEN CHOOSE i \in 1..Len(StringOrder) : StringOrder[i] = s
    ELSE 0

PairLeq(p, r) ==
    \/ Rank(p.k) < Rank(r.k)
    \/ Rank(p.k) = Rank(r.k) /\ Rank(p.v) <= Rank(r.v)

RECURSIVE InsertSorted(_, _)
InsertSorted(p, sorted) ==
    IF sorted = <<>> THEN <<p>>
    ELSE IF PairLeq(p, Head(sorted)) THEN <<p>> \o sorted
    ELSE <<Head(sorted)>> \o InsertSorted(p, Tail(sorted))

\* the pairs in the order of the query string
UnsortedPairs(pairs) == pairs

RECURSIVE SortPairs(_)
\* sorted(filtered_pairs)
SortPairs(pairs) ==
    IF pairs = <<>> THEN <<>> ELSE InsertSorted(Head(pairs), SortPairs(Tail(pairs)))

normalize_url_for_dedup(url) ==
    IF url = EmptyUrl THEN EmptyUrl
    ELSE
      LET raw == UpgradeProtocolRelative(url)
          scheme == Lower(IF raw.scheme = "" THEN "https" ELSE raw.scheme)
          port == IF \/ raw.port = "80" /\ scheme = "http"
                     \/ raw.port = "443" /\ scheme = "https"
                  THEN "" ELSE raw.port
          filtered_pairs ==
              SelectSeq(ParseQsl(raw.query), LAMBDA p : Lower(p.k) \notin _TRACKING_QUERY_KEYS)
          normalized_path ==
              IF raw.path.segs = <<>> THEN PathOf(<<>>, TRUE) ELSE PathOf(raw.path.segs, FALSE)
      IN MkUrl(scheme, Lower(raw.host), port, normalized_path, SortPairs(filtered_pairs))

RECURSIVE FirstHttpCandidate(_, _)
\* the loop over _REDIRECT_PARAM_CANDIDATES for redirect.pinterest.com
FirstHttpCandidate(params, keys) ==
    IF keys = <<>> THEN <<>>
    ELSE IF HttpTarget(DictGet(params, Head(keys))) # <<>>
         THEN HttpTarget(DictGet(params, Head(keys)))
    ELSE FirstHttpCandidate(params, Tail(keys))

\* no redirector recognised
unwrap_nothing(url) == UpgradeProtocolRelative(url)

unwrap_redirect_url(url) ==
    IF url = EmptyUrl THEN EmptyUrl
    ELSE
      LET raw == UpgradeProtocolRelative(url)
          netloc == Lower(raw.host)
          path == raw.path
          params == ParseQsl(raw.query)
          uddg == HttpTarget(DictGet(params, "uddg"))
          zhihu == HttpTarget(DictGet(params, "target"))
          brave == HttpTarget(GetOr(params, "url", "q"))
          google == HttpTarget(GetOr(params, "q", "url"))
          steam == HttpTarget(DictGet(params, "url"))
          facebook == HttpTarget(DictGet(params, "u"))
          pinterest == FirstHttpCandidate(params, _REDIRECT_PARAM_CANDIDATES)
      IN
      IF HostEndsWith(netloc, "duckduckgo.com") /\ PathStartsWithDir(path, "l") /\ uddg # <<>>
        THEN uddg[1]
      ELSE IF netloc = "link.zhihu.com" /\ zhihu # <<>>
        THEN zhihu[1]
      ELSE IF /\ HostEndsWith(netloc, "search.brave.com")
              /\ (PathContains(path, "redirect") \/ netloc = "r.search.brave.com")
              /\ brave # <<>>
        THEN brave[1]
      ELSE IF HostEndsWith(netloc, "google.com") /\ PathStartsWith(path, "url") /\ google # <<>>
        THEN google[1]
      ELSE IF HostEndsWith(netloc, "youtube.com") /\ PathStartsWith(path, "redirect")
              /\ google # <<>>
        THEN google[1]
      ELSE IF HostEndsWith(netloc, "steamcommunity.com") /\ PathContains(path, "linkfilter") /\ steam # <<>>
        THEN steam[1]
      ELSE IF netloc = "l.facebook.com" /\ facebook # <<>>
        THEN facebook[1]
      ELSE IF netloc = "t.co"
        THEN raw
      ELSE IF netloc = "redirect.pinterest.com" /\ pinterest # <<>>
        THEN pinterest[1]
      ELSE raw

get_hostname(url) == Lower(url.host)

\* a dedup key that skips the normalisation
DedupKeyRaw(url) == url

\* normalize_url_for_dedup(url) or url
DedupKey(url) ==
    IF normalize_url_for_dedup(url) # EmptyUrl THEN normalize_url_for_dedup(url) ELSE url

----------------------------------------------------------------------------
(* Configuration: build_config *)

\* an environment variable: absent, or present with a text that int() parses
\* (int |-> TRUE, n) or rejects (int |-> FALSE)
EnvUnset == [set |-> FALSE, int |-> FALSE, n |-> 0]

EnvInt(n) == [set |-> TRUE, int |-> TRUE, n |-> n]

EnvInvalid == [set |-> TRUE, int |-> FALSE, n |-> 0]

_parse_int(value, default, minimum) ==
    IF ~value.set THEN default
    ELSE IF ~value.int THEN default
    ELSE IF value.n < minimum THEN default
    ELSE value.n

\* an environment variable holding a word: <<>> when absent, else <<text>>
_parse_bool(value, default) ==
    IF value = <<>> THEN default
    ELSE IF Lower(value[1]) \in {"1", "true", "yes", "on"} THEN TRUE
    ELSE IF Lower(value[1]) \in {"0", "false", "no", "off"} THEN FALSE
    ELSE default

\* None for an absent or blank value
_normalize_optional(value) == IF value = <<>> \/ value[1] = EmptyUrl THEN <<>> ELSE value

\* the CF_WORKER address "https://w.example/"
WorkerBase == MkUrl("https", "w.example", "", PathOf(<<>>, TRUE), <<>>)

DefaultMaxTokenLimit == 10000

DefaultSearchResultLimit == 25

DefaultSearchMaxPerDomain == 2

build_config(env) ==
    [ openai_api_key |-> env.OPENAI_API_KEY,
      openai_base_url |-> env.OPENAI_BASE_URL,
      cf_worker_url |-> _normalize_optional(env.CF_WORKER),
      max_token_limit |-> _parse_int(env.MAX_TOKEN_LIMIT, DefaultMaxTokenLimit, 1),
      playwright_fallback |-> _parse_bool(env.PLAYWRIGHT_FALLBACK, TRUE),
      search_result_limit |->
          _parse_int(env.SEARCH_RESULT_LIMIT, DefaultSearchResultLimit, 1),
      search_max_per_domain |->
          _parse_int(env.SEARCH_MAX_PER_DOMAIN, DefaultSearchMaxPerDomain, 0) ]

Environment(key, base, limit, per_domain, worker, tokens, fallback) ==
    [ OPENAI_API_KEY |-> key, OPENAI_BASE_URL |-> base,
      SEARCH_RESULT_LIMIT |-> limit, SEARCH_MAX_PER_DOMAIN |-> per_domain,
      CF_WORKER |-> worker, MAX_TOKEN_LIMIT |-> tokens, PLAYWRIGHT_FALLBACK |-> fallback ]

\* the environments the server is started in
Environments ==
    { Environment("sk-key", "https://llm.example/v1", EnvUnset, EnvUnset,
                  <<>>, EnvUnset, <<>>),
      Environment("sk-key", "https://llm.example/v1", EnvInt(2), EnvInt(1),
                  <<WorkerBase>>, EnvInt(1), <<"true">>),
      Environment("sk-key", "https://llm.example/v1", EnvInt(2), EnvInt(0),
                  <<EmptyUrl>>, EnvInt(1), <<"OFF">>),
      Environment("", "https://llm.example/v1", EnvInt(2), EnvInt(1),
                  <<WorkerBase>>, EnvInvalid, <<"0">>),
      Environment("sk-key", "", EnvInt(0), EnvInt(0 - 1),
                  <<>>, EnvInt(0), <<"maybe">>),
      Environment("", "", EnvInvalid, EnvInt(0),
                  <<>>, EnvInt(1), <<"false">>) }

\* AppConfig.llm_configured
llm_configured(c) == c.openai_api_key # "" /\ c.openai_base_url # ""

----------------------------------------------------------------------------
(* What the backends deliver *)

UrlA == MkUrl("https", "a.com", "", PathOf(<<"x">>, FALSE), <<>>)

\* the same page as UrlA, with a tracking parameter
UrlATracked == MkUrl("https", "a.com", "", PathOf(<<"x">>, FALSE), <<Param("utm_source", "t")>>)

\* a DuckDuckGo redirector URL whose target is UrlATracked
UrlWrapped ==
    MkUrl("https", "duckduckgo.com", "", PathOf(<<"l">>, TRUE), <<Redirect("uddg", UrlATracked)>>)

\* another page of the host of UrlA
UrlB == MkUrl("https", "a.com", "", PathOf(<<"y">>, FALSE), <<>>)

UrlC == MkUrl("https", "b.com", "", PathOf(<<"z">>, TRUE), <<>>)

UrlPool == {UrlA, UrlWrapped, UrlB, UrlC}

ErrorTexts == {"boom"}

Queries == {<<"tla", "model">>, <<"site:a.com", "tla">>}

SiteTokens == {"site:a.com"}

\* _SITE_QUERY_RE.search(query)
is_site_query(q) == \E i \in 1..Len(q) : q[i] \in SiteTokens

----------------------------------------------------------------------------
(* Search scrapers *)

Link(title, url) == [title |-> title, url |-> url]

RECURSIVE HttpLinks(_, _)
\* the links of the items whose href starts with "http"
HttpLinks(hrefs, title) ==
    IF hrefs = <<>> THEN <<>>
    ELSE IF StartsWithHttp(Head(hrefs))
         THEN <<Link(title, Head(hrefs))>> \o HttpLinks(Tail(hrefs), title)
    ELSE HttpLinks(Tail(hrefs), title)

\* _extract_brave_results: items[:limit], hrefs that start with "http"
_extract_brave_results(hrefs, limit) ==
    HttpLinks(IF limit > 0 THEN Take(hrefs, limit) ELSE hrefs, "No Title")

\* _search_brave_core: the GET fails (raise_for_status included) or the page is parsed
_search_brave_core(outcome, max_results) ==
    IF ~outcome.ok
    THEN [raised |-> TRUE, exc |-> outcome.err, results |-> <<>>]
    ELSE [raised |-> FALSE, exc |-> "", results |-> _extract_brave_results(outcome.hrefs, max_results)]

_decode_ddg_url(href) ==
    LET abs == IF href.scheme = "" /\ href.host = "" /\ href.path.slash
               THEN [href EXCEPT !.scheme = "https", !.host = "duckduckgo.com"]
               ELSE UpgradeProtocolRelative(href)
        uddg == DictGet(ParseQsl(abs.query), "uddg")
    IN
    IF href = EmptyUrl THEN EmptyUrl
    ELSE IF ~StartsWithHttp(abs) THEN EmptyUrl
    ELSE IF HostEndsWith(abs.host, "duckduckgo.com") /\ PathStartsWithDir(abs.path, "l")
            /\ uddg # <<>>
         THEN IF uddg[1].u # <<>> THEN uddg[1].u[1] ELSE TextUrl(uddg[1].v)
    ELSE abs

RECURSIVE DecodeAll(_)
DecodeAll(hrefs) ==
    IF hrefs = <<>> THEN <<>> ELSE <<_decode_ddg_url(Head(hrefs))>> \o DecodeAll(Tail(hrefs))

\* _search_duckduckgo_core without its try/except
DdgFailureRaised(outcome) == [raised |-> TRUE, exc |-> outcome.err, results |-> <<>>]

\* _search_duckduckgo_core with the GET failing: the exception is logged and [] returned
DdgFailureSwallowed(outcome) == [raised |-> FALSE, exc |-> "", results |-> <<>>]

\* _search_duckduckgo_core
_search_duckduckgo_core(outcome, max_results) ==
    IF ~outcome.ok
    THEN DdgFailureSwallowed(outcome)
    ELSE [raised |-> FALSE, exc |-> "",
          results |-> LET all == HttpLinks(DecodeAll(outcome.hrefs), "No Title")
                      IN IF max_results > 0 THEN Take(all, max_results) ELSE all]

----------------------------------------------------------------------------
(* AI research bridge: the links of the LLM reply *)

(* The reply of the LLM is modelled by the URLs it mentions: those of its    *)
(* browse_page traces (in text order) and the others (in text order).  The  *)
(* bare-URL pattern of parse_markdown_links matches the URLs of the traces  *)
(* too; as _ai_search_async removes every link whose key is a priority key, *)
(* where a trace stands between the other URLs does not change its result.  *)

RECURSIVE BrowseLoop(_, _)
BrowseLoop(raw_urls, seen) ==
    IF raw_urls = <<>> THEN <<>>
    ELSE LET url == unwrap_redirect_url(Head(raw_urls))
             key == DedupKey(url)
         IN IF url = EmptyUrl \/ ~StartsWithHttp(url) \/ key \in seen
            THEN BrowseLoop(Tail(raw_urls), seen)
            ELSE <<Link("browse_page: check", url)>>
                     \o BrowseLoop(Tail(raw_urls), seen \cup {key})

\* extract_browse_page_links: the URLs of the browse_page traces
extract_browse_page_links(browse) == BrowseLoop(browse, {})

\* parse_markdown_links._normalize_candidate
_normalize_candidate(raw_url) ==
    IF raw_url = EmptyUrl THEN EmptyUrl
    ELSE unwrap_redirect_url(UpgradeProtocolRelative(raw_url))

RECURSIVE LinkLoop(_, _)
LinkLoop(raw_urls, seen) ==
    IF raw_urls = <<>> THEN <<>>
    ELSE LET url == _normalize_candidate(Head(raw_urls))
             key == DedupKey(url)
         IN IF ~StartsWithHttp(url) \/ key \in seen
            THEN LinkLoop(Tail(raw_urls), seen)
            ELSE <<Link(url.host, url)>> \o LinkLoop(Tail(raw_urls), seen \cup {key})

\* parse_markdown_links: every URL of the reply, those of the traces included
parse_markdown_links(browse, links) == LinkLoop(browse \o links, {})

\* what strip_urls(summary) leaves of a reply
SummaryText == "summary"

AiValue(priority, others, summary, err) ==
    [priority_links |-> priority, ai_links_others |-> others, summary |-> summary, ai_error |-> err]

\* web_search._ai_search_async
_ai_search_async(c, outcome) ==
    IF ~llm_configured(c) THEN AiValue(<<>>, <<>>, "", "llm_not_configured")
    ELSE IF ~outcome.ok THEN AiValue(<<>>, <<>>, "", outcome.err)
    ELSE
      LET priority_links == extract_browse_page_links(outcome.browse)
          ai_links == parse_markdown_links(outcome.browse, outcome.links)
          priority_keys == {DedupKey(priority_links[i].url) : i \in 1..Len(priority_links)}
          ai_links_others == SelectSeq(ai_links, LAMBDA l : DedupKey(l.url) \notin priority_keys)
      IN AiValue(priority_links, ai_links_others, SummaryText, "")

----------------------------------------------------------------------------
(* Search orchestrator: web_search *)

Absent == <<>>

Diagnostics(backend, fallback_used, brave_results, ddg_results, brave_error, browser_error) ==
    [ backend |-> backend, fallback_used |-> fallback_used,
      brave_results |-> brave_results, ddg_results |-> ddg_results,
      brave_error |-> brave_error, browser_error |-> browser_error ]

\* the dict both web_search and _browser_search_async start from
InitialDiagnostics == Diagnostics("none", FALSE, 0, 0, Absent, Absent)

\* internal_limit = max(cfg.search_result_limit * 2, 20)
InternalLimit(c) == Max(c.search_result_limit * 2, 20)

NoTask == [state |-> "none", value |-> AiValue(<<>>, <<>>, "", ""), exc |-> ""]

PendingAiTask == [NoTask EXCEPT !.state = "pending"]

BrowserTask(state, results, diagnostics, exc) ==
    [state |-> state, results |-> results, diagnostics |-> diagnostics, exc |-> exc]

Finished(task) == task.state \in {"returned", "raised"}

\* a join that returns as soon as one task has finished
GatherFirstCompleted(a, b) == Finished(a) \/ Finished(b)

\* asyncio.gather(ai_task, browser_task, return_exceptions=True) has a value
\* when both tasks have finished
GatherDone(a, b) == Finished(a) /\ Finished(b)

\* a fallback taken only when Brave threw
BraveSufficientUnlessThrown(r) == ~r.raised

\* if results: ... return results, diagnostics (no fallback)
BraveSufficient(r) == ~r.raised /\ r.results # <<>>

\* a merge that ignores the site query
MergedLinksNoSite(is_site, ai_priority_links, ai_links_only, browser_links) ==
    ai_priority_links \o ai_links_only \o browser_links

\* merged_links
MergedLinks(is_site, ai_priority_links, ai_links_only, browser_links) ==
    IF is_site
    THEN ai_priority_links \o browser_links \o ai_links_only
    ELSE ai_priority_links \o ai_links_only \o browser_links

\* a merge in the order of completion: the links of the browser task come
\* first when that task finished first
MergeAsCompleted(first, is_site, ai_priority_links, ai_links_only, browser_links) ==
    IF first = "browser"
    THEN browser_links \o ai_priority_links \o ai_links_only
    ELSE MergedLinks(is_site, ai_priority_links, ai_links_only, browser_links)

\* the results of asyncio.gather(ai_task, browser_task) are unpacked by position,
\* ai_result then browser_result, whichever task finished first, and merged
MergeAfterGather(first, is_site, ai_priority_links, ai_links_only, browser_links) ==
    MergedLinks(is_site, ai_priority_links, ai_links_only, browser_links)

RECURSIVE UniqueLoop(_, _)
\* the loop that fills unique_links
UniqueLoop(merged, seen_urls) ==
    IF merged = <<>> THEN <<>>
    ELSE LET url == unwrap_redirect_url(Head(merged).url)
             dedup_key == DedupKey(url)
         IN IF url = EmptyUrl \/ ~StartsWithHttp(url) \/ dedup_key \in seen_urls
            THEN UniqueLoop(Tail(merged), seen_urls)
            ELSE <<Link(Head(merged).title, url)>>
                     \o UniqueLoop(Tail(merged), seen_urls \cup {dedup_key})

\* domain_counts.get(host, 0)
CountOf(domain_counts, host) ==
    IF host \in DOMAIN domain_counts THEN domain_counts[host] ELSE 0

\* the cap test off by one
DomainFullStrict(count, max_per_domain) == count > max_per_domain

\* domain_counts.get(host, 0) >= max_per_domain
DomainFull(count, max_per_domain) == count >= max_per_domain

\* the limit test off by one
LimitReachedStrict(n, limit) == n > limit

\* len(limited_links) >= limit
LimitReached(n, limit) == n >= limit

RECURSIVE LimitLoop(_, _, _, _, _)
\* the loop that fills limited_links
LimitLoop(links, domain_counts, limited_links, limit, max_per_domain) ==
    IF links = <<>> THEN limited_links
    ELSE
      LET link == Head(links)
          host == get_hostname(link.url)
          appended == Append(limited_links, link)
          counted == IF host # ""
                     THEN [h \in DOMAIN domain_counts \cup {host} |->
                              IF h = host THEN CountOf(domain_counts, host) + 1
                              ELSE domain_counts[h]]
                     ELSE domain_counts
      IN
      IF max_per_domain > 0 /\ host # "" /\ DomainFull(CountOf(domain_counts, host), max_per_domain)
      THEN LimitLoop(Tail(links), domain_counts, limited_links, limit, max_per_domain)
      ELSE IF LimitReached(Len(appended), limit) THEN appended
      ELSE LimitLoop(Tail(links), counted, appended, limit, max_per_domain)

\* max_per_domain as web_search uses it
EffectiveMaxPerDomain(c, is_site) ==
    IF is_site THEN 0
    ELSE IF c.search_max_per_domain < 0 THEN 0
    ELSE c.search_max_per_domain

NoResult ==
    [ success |-> FALSE, query |-> <<>>, links |-> <<>>, ai_summary |-> "", ai_error |-> "",
      diagnostics |-> [search_backend |-> "none", browser |-> InitialDiagnostics,
                       is_site_query |-> FALSE, llm_enabled |-> FALSE] ]

\* web_search from the join of the tasks to its return
WebSearchReturn(c, q, ai, a, b, first) ==
    LET is_site == is_site_query(q)
        ai_ok == ai /\ a.state = "returned"
        ai_value == IF ai_ok THEN a.value
                    ELSE AiValue(<<>>, <<>>, "", IF ai THEN a.exc ELSE "")
        browser_links == IF b.state = "returned" THEN b.results ELSE <<>>
        browser_diagnostics ==
            IF b.state = "returned" THEN b.diagnostics
            ELSE [InitialDiagnostics EXCEPT !.browser_error = <<b.exc>>]
        merged_links == MergeAfterGather(first, is_site, ai_value.priority_links,
                                         ai_value.ai_links_others, browser_links)
        unique_links == UniqueLoop(merged_links, {})
        limited_links == LimitLoop(unique_links, <<>>, <<>>, c.search_result_limit,
                                   EffectiveMaxPerDomain(c, is_site))
    IN
    IF ~ai /\ b.state = "raised"
    THEN [raised |-> TRUE, value |-> NoResult]
    ELSE [raised |-> FALSE,
          value |-> [ success |-> TRUE, query |-> q, links |-> limited_links,
                      ai_summary |-> ai_value.summary, ai_error |-> ai_value.ai_error,
                      diagnostics |-> [search_backend |-> browser_diagnostics.backend,
                                       browser |-> browser_diagnostics,
                                       is_site_query |-> is_site,
                                       llm_enabled |-> ai] ]]

\* requests issued to each backend, and how the request ended:
\* "none" (not issued), "threw", "empty" (no link) or "links";
\* first is the task that finished first ("ai", "browser", "" while none has)
NoCalls ==
    [ llm |-> 0, brave |-> 0, ddg |-> 0,
      llm_out |-> "none", brave_out |-> "none", ddg_out |-> "none", brave_exc |-> "",
      first |-> "" ]

\* the task that finished first, after task has finished
FirstDone(first, task) == IF first = "" THEN task ELSE first

OutcomeOf(ok, links) == IF ~ok THEN "threw" ELSE IF links = <<>> THEN "empty" ELSE "links"

InitSearch ==
    /\ pc = "idle"
    /\ query = <<>>
    /\ use_ai = FALSE
    /\ ai_task = NoTask
    /\ browser_task = BrowserTask("none", <<>>, InitialDiagnostics, "")
    /\ trace = NoCalls
    /\ env_links = 0
    /\ result = NoResult

----------------------------------------------------------------------------
(* Page fetcher: documents, dicts and the adapters of fetch *)

\* A document (HTML, markdown or text) is a sequence of characters; a passage
\* that looks_like_blocked_text recognises is written as the one symbol "captcha".
EmptyDoc == <<>>

ShortDoc == <<"a", "b">>

LongDoc == <<"a", "b", "c", "d", "e", "f", "g", "h">>

BlockedDoc == <<"captcha", "b">>

Docs == {EmptyDoc, ShortDoc, LongDoc, BlockedDoc}

looks_like_blocked_text(content) == \E i \in 1..Len(content) : content[i] = "captcha"

\* a cut at every length above max_token_limit * 4
limit_content_length_by_chars(c, content) ==
    IF Len(content) > c.max_token_limit * 4
    THEN <<Take(content, c.max_token_limit * 4), TRUE>>
    ELSE <<content, FALSE>>

limit_content_length(c, content) ==
    IF Len(content) \div 4 > c.max_token_limit
    THEN <<Take(content, c.max_token_limit * 4), TRUE>>
    ELSE <<content, FALSE>>

\* d.get(key, default)
Get(d, key, default) == IF key \in DOMAIN d THEN d[key] ELSE default

\* d[key] = value
DictSet(d, key, value) == (key :> value) @@ d

\* {**d, **e}
DictMerge(d, e) == e @@ d

\* what a function returns to its caller: a value, or an exception
Return(value) == [raised |-> FALSE, error |-> "", value |-> value]

Raise(error) == [raised |-> TRUE, error |-> error, value |-> <<>>]

\* a candidate of the Content Extractor with the metrics of _score_content
Candidate(content, extractor, quality_score, degraded) ==
    [ content |-> content, extractor |-> extractor, quality_score |-> quality_score,
      degraded |-> degraded, char_len |-> Len(content),
      line_count |-> IF content = <<>> THEN 0 ELSE 1 ]

\* how _extract_best_content ends on a page, and what _build_degraded_markdown /
\* _build_degraded_text make of the same page
Extraction(raised, best, degraded_content, degraded_score) ==
    [ raised |-> raised, best |-> best,
      degraded_content |-> degraded_content, degraded_score |-> degraded_score ]

ExtractOutcomes ==
    { Extraction(TRUE, Candidate(EmptyDoc, "none", 0, FALSE), EmptyDoc, 0),
      Extraction(FALSE, Candidate(ShortDoc, "trafilatura:precision", 80, FALSE), ShortDoc, 30),
      Extraction(FALSE, Candidate(LongDoc, "readability", 70, FALSE), EmptyDoc, 0),
      Extraction(FALSE, Candidate(BlockedDoc, "bs4:body", 40, FALSE), ShortDoc, 30),
      Extraction(FALSE, Candidate(BlockedDoc, "trafilatura:recall", 90, FALSE), EmptyDoc, 0) }

quality_metrics(extracted) ==
    [char_len |-> extracted.char_len, line_count |-> extracted.line_count]

\* a result builder that keeps what the extractor returned
NoBlockedFallback(blocked, e) == e.best

\* if blocked and extracted.get("quality_score", 0) < 65: the degraded candidate
BlockedFallback(blocked, e) ==
    IF blocked /\ e.best.quality_score < 65
    THEN Candidate(e.degraded_content, "meta:blocked", e.degraded_score, TRUE)
    ELSE e.best

\* \d+
IsDigits(seg) == seg \in {"1", "42"}

\* _ZHIHU_ANSWER_RE.search(url): "zhihu.com/" followed by answer/N or
\* question/N/answer/N; <<>> for None. A URL inside a query value is
\* percent-encoded and holds no "/".
extract_zhihu_answer_id(url) ==
    LET segs == url.path.segs
    IN IF ~HostEndsWith(Lower(url.host), "zhihu.com") \/ url.port # "" THEN <<>>
       ELSE IF Len(segs) >= 2 /\ Lower(segs[1]) = "answer" /\ IsDigits(segs[2])
       THEN <<segs[2]>>
       ELSE IF /\ Len(segs) >= 4
               /\ Lower(segs[1]) = "question" /\ IsDigits(segs[2])
               /\ Lower(segs[3]) = "answer" /\ IsDigits(segs[4])
       THEN <<segs[4]>>
       ELSE <<>>

prefer_playwright_for_url(url) ==
    LET host == get_hostname(url)
    IN /\ host # ""
       /\ \/ host \in {"xiaohongshu.com", "xhslink.com"}
          \/ HostEndsWith(host, "zhihu.com")

\* a rewrite that leaves every address as it is
get_target_url_direct(c, original_url) == original_url

\* get_target_url: the address of the Worker with the target in its url parameter
get_target_url(c, original_url) ==
    IF c.cf_worker_url # <<>>
    THEN [c.cf_worker_url[1] EXCEPT !.path = PathOf(@.segs, FALSE),
                                    !.query = <<Redirect("url", original_url)>>]
    ELSE original_url

\* one request of the fetcher: the stage that issued it and the address requested
Request(stage, target) == [stage |-> stage, target |-> target]

\* the reply of the Zhihu answer API: ok is FALSE when the GET raises or the
\* body is no JSON; content is data["content"] with the segments appended
ApiReply(ok, content) == [ok |-> ok, content |-> content]

ApiReplies == {ApiReply(FALSE, EmptyDoc), ApiReply(TRUE, EmptyDoc), ApiReply(TRUE, ShortDoc)}

\* _fetch_zhihu_answer_content._build_result; <<>> when the extractor raises,
\* which the callers of _try_fetch turn into None
_build_result(c, url, mode, content_html, via_worker, e) ==
    LET common == [ success |-> TRUE, url |-> url, via_worker |-> via_worker,
                    via_playwright |-> FALSE, via_zhihu_api |-> TRUE ]
        limited == limit_content_length(c, e.best.content)
        quality == [ truncated |-> limited[2], extractor |-> e.best.extractor,
                     quality_score |-> e.best.quality_score,
                     quality_metrics |-> quality_metrics(e.best),
                     degraded |-> e.best.degraded ]
    IN IF mode = "html"
       THEN <<DictMerge(common, [ html |-> limit_content_length(c, content_html)[1],
                                  truncated |-> limit_content_length(c, content_html)[2] ])>>
       ELSE IF e.raised THEN <<>>
       ELSE IF mode = "markdown"
       THEN <<DictMerge(DictMerge(common, quality), [markdown |-> limited[1]])>>
       ELSE <<DictMerge(DictMerge(common, quality), [text |-> limited[1]])>>

_try_fetch(c, url, mode, reply, via_worker, e) ==
    IF ~reply.ok \/ reply.content = EmptyDoc THEN <<>>
    ELSE _build_result(c, url, mode, reply.content, via_worker, e)

ZhihuApiUrl(answer_id) ==
    MkUrl("https", "www.zhihu.com", "", PathOf(<<"api", "v4", "answers", answer_id>>, FALSE),
          <<Param("include", "content,excerpt,content_need_truncated,segment_infos")>>)

\* <<>> for None, else <<result>>
_fetch_zhihu_answer_content(c, url, mode, env) ==
    LET via_worker == _try_fetch(c, url, mode, env.zhihu_worker, TRUE, env.extract)
        direct == _try_fetch(c, url, mode, env.zhihu_direct, FALSE, env.extract)
    IN IF extract_zhihu_answer_id(url) = <<>> THEN <<>>
       ELSE IF c.cf_worker_url # <<>> /\ via_worker # <<>> THEN via_worker
       ELSE direct

\* the GETs _fetch_zhihu_answer_content issues
ZhihuRequests(c, url, mode, env) ==
    LET id == extract_zhihu_answer_id(url)
        via_worker == _try_fetch(c, url, mode, env.zhihu_worker, TRUE, env.extract)
    IN IF id = <<>> THEN <<>>
       ELSE IF c.cf_worker_url = <<>> THEN <<Request("zhihu", ZhihuApiUrl(id[1]))>>
       ELSE IF via_worker # <<>>
       THEN <<Request("zhihu", get_target_url(c, ZhihuApiUrl(id[1])))>>
       ELSE << Request("zhihu", get_target_url(c, ZhihuApiUrl(id[1]))),
               Request("zhihu", ZhihuApiUrl(id[1])) >>

\* str.endswith(".json") and the name with ".json" appended
EndsWithJson(seg) == seg \in {"1.json", "42.json"}

WithJson(seg) == IF seg = "1" THEN "1.json" ELSE IF seg = "42" THEN "42.json" ELSE seg

\* <<>> for None, else <<the address of the topic's JSON>>
_discourse_topic_json_url(url) ==
    LET segs == url.path.segs
        scheme == IF url.scheme = "" THEN "https" ELSE url.scheme
        t_at == {i \in 1..Len(segs) : segs[i] = "t"}
        t_index == CHOOSE i \in t_at : \A j \in t_at : i <= j
        ids == {i \in 1..Len(segs) : i > t_index /\ IsDigits(segs[i])}
        topic_id_index == CHOOSE i \in ids : \A j \in ids : i <= j
    IN IF url.host = "" THEN <<>>
       ELSE IF segs # <<>> /\ ~url.path.slash /\ EndsWithJson(segs[Len(segs)])
       THEN <<MkUrl(scheme, url.host, url.port, url.path, <<>>)>>
       ELSE IF t_at = {} THEN <<>>
       ELSE IF ids = {} THEN <<>>
       ELSE <<MkUrl(scheme, url.host, url.port,
                    PathOf([i \in 1..topic_id_index |->
                               IF i = topic_id_index THEN WithJson(segs[i]) ELSE segs[i]],
                           FALSE),
                    <<>>)>>

\* how the topic JSON request ends: "error" (the GET raises), "blocked" (the body
\* looks blocked), "not_json", "raises" (_extract_discourse_topic_markdown raises),
\* or "topic" with the markdown built from its posts (empty: None)
TopicReply(kind, markdown, quality_score) ==
    [kind |-> kind, markdown |-> markdown, quality_score |-> quality_score]

TopicReplies ==
    { TopicReply("error", EmptyDoc, 0), TopicReply("blocked", EmptyDoc, 0),
      TopicReply("raises", EmptyDoc, 0), TopicReply("topic", EmptyDoc, 0),
      TopicReply("topic", ShortDoc, 75) }

\* Return(<<>>) for None, Return(<<result>>), or the exception
_fetch_discourse_topic_content(c, url, reply) ==
    LET limited == limit_content_length(c, reply.markdown)
        metrics == Candidate(limited[1], "adapter:discourse:topic_json",
                             reply.quality_score, FALSE)
    IN IF _discourse_topic_json_url(url) = <<>> THEN Return(<<>>)
       ELSE IF reply.kind \in {"error", "blocked", "not_json"} THEN Return(<<>>)
       ELSE IF reply.kind = "raises" THEN Raise("boom")
       ELSE IF reply.markdown = EmptyDoc THEN Return(<<>>)
       ELSE Return(<<[ success |-> TRUE, url |-> url,
                       via_worker |-> c.cf_worker_url # <<>>,
                       via_playwright |-> FALSE, status_code |-> 200,
                       markdown |-> limited[1], truncated |-> limited[2],
                       blocked |-> FALSE, extractor |-> "adapter:discourse:topic_json",
                       quality_score |-> metrics.quality_score,
                       quality_metrics |-> quality_metrics(metrics),
                       degraded |-> FALSE ]>>)

DiscourseRequests(c, url) ==
    IF _discourse_topic_json_url(url) = <<>> THEN <<>>
    ELSE <<Request("discourse", get_target_url(c, _discourse_topic_json_url(url)[1]))>>

----------------------------------------------------------------------------
(* Page fetcher: fetch._fetch and _fetch_with_playwright *)

\* how _curl_get_with_retries ends for the page itself
PageGet(ok, text) == [ok |-> ok, status_code |-> IF ok THEN 200 ELSE 0, text |-> text]

PageGets ==
    {PageGet(FALSE, EmptyDoc), PageGet(TRUE, EmptyDoc), PageGet(TRUE, ShortDoc),
     PageGet(TRUE, BlockedDoc)}

\* what the network and the extractor do during one run of fetch._fetch on url;
\* an adapter that url does not select issues no request
FetchEnvs(url) ==
    [ zhihu_worker : IF extract_zhihu_answer_id(url) # <<>> THEN ApiReplies
                     ELSE {ApiReply(FALSE, EmptyDoc)},
      zhihu_direct : IF extract_zhihu_answer_id(url) # <<>> THEN ApiReplies
                     ELSE {ApiReply(FALSE, EmptyDoc)},
      discourse : IF _discourse_topic_json_url(url) # <<>> THEN TopicReplies
                  ELSE {TopicReply("error", EmptyDoc, 0)},
      get : PageGets, extract : ExtractOutcomes ]

\* the stub is returned for a preferred-browser host whatever the configuration
StubGateAnyConfig(c, url) == prefer_playwright_for_url(url)

\* prefer_playwright_for_url(url) and cfg.playwright_fallback
StubGate(c, url) == prefer_playwright_for_url(url) /\ c.playwright_fallback

\* fetch._fetch from the plain GET on
HttpStage(c, url, env) ==
    LET raw_html == env.get.text
        blocked == looks_like_blocked_text(raw_html)
        extracted == BlockedFallback(blocked, env.extract)
        limited == limit_content_length(c, extracted.content)
    IN IF ~env.get.ok THEN Raise("boom")
       ELSE IF blocked /\ c.playwright_fallback
       THEN Return([ success |-> FALSE, url |-> url, needs_playwright |-> TRUE,
                     via_worker |-> c.cf_worker_url # <<>>,
                     status_code |-> env.get.status_code ])
       ELSE IF env.extract.raised THEN Raise("boom")
       ELSE Return([ success |-> TRUE, url |-> url,
                     via_worker |-> c.cf_worker_url # <<>>,
                     via_playwright |-> FALSE, status_code |-> env.get.status_code,
                     markdown |-> limited[1], truncated |-> limited[2],
                     blocked |-> blocked, extractor |-> extracted.extractor,
                     quality_score |-> extracted.quality_score,
                     quality_metrics |-> quality_metrics(extracted),
                     degraded |-> extracted.degraded ])

\* fetch._fetch
_fetch(c, url, env) ==
    LET zhihu_result == _fetch_zhihu_answer_content(c, url, "markdown", env)
        discourse_result == _fetch_discourse_topic_content(c, url, env.discourse)
    IN IF zhihu_result # <<>> THEN Return(zhihu_result[1])
       ELSE IF discourse_result.raised THEN discourse_result
       ELSE IF discourse_result.value # <<>> THEN Return(discourse_result.value[1])
       ELSE IF StubGate(c, url)
       THEN Return([success |-> FALSE, url |-> url, needs_playwright |-> TRUE])
       ELSE HttpStage(c, url, env)

\* a fetch._fetch that requests the topic JSON and the page whatever the
\* earlier stages returned
RequestsOfEveryStage(c, url, env) ==
    ZhihuRequests(c, url, "markdown", env)
        \o DiscourseRequests(c, url)
        \o <<Request("http", get_target_url(c, url))>>

\* the requests fetch._fetch issues, in order
FetchRequests(c, url, env) ==
    LET zhihu_result == _fetch_zhihu_answer_content(c, url, "markdown", env)
        discourse_result == _fetch_discourse_topic_content(c, url, env.discourse)
    IN ZhihuRequests(c, url, "markdown", env)
       \o (IF zhihu_result # <<>> THEN <<>>
           ELSE DiscourseRequests(c, url)
                \o (IF discourse_result.raised \/ discourse_result.value # <<>>
                       \/ StubGate(c, url)
                    THEN <<>>
                    ELSE <<Request("http", get_target_url(c, url))>>))

\* _extract_metadata(html)
Metadata(title, links, truncated) ==
    [ title |-> title, description |-> "", canonical_url |-> EmptyUrl,
      links |-> links, truncated |-> truncated ]

\* what the browser and the extractor do during one _fetch_with_playwright:
\* failed names the step that raises ("import", "launch" for anything inside the
\* outer try, "content" for both page.content() calls, "close" for the release of
\* the context or the browser), or "" when none does
Browser(failed, html, extract, metadata) ==
    [failed |-> failed, html |-> html, extract |-> extract, metadata |-> metadata]

BrowserEnvs ==
    { Browser(f, EmptyDoc, e, Metadata("", <<>>, FALSE)) :
          f \in {"import", "launch", "content"},
          e \in {Extraction(TRUE, Candidate(EmptyDoc, "none", 0, FALSE), EmptyDoc, 0)} }
    \cup { Browser(f, h, e, m) :
               f \in {"", "close"}, h \in {ShortDoc, BlockedDoc}, e \in ExtractOutcomes,
               m \in {Metadata("", <<>>, FALSE), Metadata("T", <<ShortDoc>>, TRUE)} }

Modes == {"html", "text", "markdown", "meta", "metadata", "pdf"}

_extract_and_build_result(c, url, mode, blocked, e) ==
    LET content_key == IF mode = "markdown" THEN "markdown" ELSE "text"
        extracted == BlockedFallback(blocked, e)
        limited == limit_content_length(c, extracted.content)
    IN DictSet([ success |-> TRUE, url |-> url, via_worker |-> FALSE,
                 via_playwright |-> TRUE, truncated |-> limited[2],
                 blocked |-> blocked, extractor |-> extracted.extractor,
                 quality_score |-> extracted.quality_score,
                 quality_metrics |-> quality_metrics(extracted),
                 degraded |-> extracted.degraded ],
               content_key, limited[1])

PlaywrightError(url, error, via_playwright) ==
    IF via_playwright
    THEN [success |-> FALSE, url |-> url, error |-> error, via_playwright |-> TRUE]
    ELSE [success |-> FALSE, url |-> url, error |-> error]

_fetch_with_playwright(c, url, mode, b) ==
    LET blocked == looks_like_blocked_text(b.html)
        limited_html == limit_content_length(c, b.html)
    IN IF ~c.playwright_fallback
       THEN PlaywrightError(url, "Playwright fallback disabled", FALSE)
       ELSE IF b.failed = "import"
       THEN PlaywrightError(url, "Playwright not available: boom", FALSE)
       ELSE IF b.failed \in {"launch", "content", "close"}
       THEN PlaywrightError(url, "boom", TRUE)
       ELSE IF mode = "html"
       THEN [ success |-> TRUE, url |-> url, via_worker |-> FALSE,
              via_playwright |-> TRUE, html |-> limited_html[1],
              truncated |-> limited_html[2], blocked |-> blocked ]
       ELSE IF mode \in {"text", "markdown"}
       THEN IF b.extract.raised THEN PlaywrightError(url, "boom", TRUE)
            ELSE _extract_and_build_result(c, url, mode, blocked, b.extract)
       ELSE IF mode \in {"meta", "metadata"}
       THEN DictMerge([ success |-> TRUE, url |-> url, via_worker |-> FALSE,
                        via_playwright |-> TRUE, blocked |-> blocked ],
                      b.metadata)
       ELSE PlaywrightError(url, "Unsupported mode: pdf", TRUE)

\* a browser result that is returned whether it succeeded or not
AfterBrowserAlwaysReplace(why, local, browser_result) == browser_result

\* a stub that is augmented, like a blocked-looking result, when the browser fails
AfterBrowserStubAugmented(why, local, browser_result) ==
    IF why = "exception" \/ browser_result.success THEN browser_result
    ELSE DictSet(DictSet(local[1], "blocked", TRUE), "playwright_error",
                 Get(browser_result, "error", "Playwright fallback failed"))

\* a fetch that hands the stub back when the browser fetch failed
AfterBrowserKeepStub(why, local, browser_result) ==
    IF why = "exception" \/ browser_result.success THEN browser_result
    ELSE IF why = "needs_playwright" THEN local[1]
    ELSE DictSet(DictSet(local[1], "blocked", TRUE), "playwright_error",
                 Get(browser_result, "error", "Playwright fallback failed"))

\* what fetch returns once the awaited _fetch_with_playwright has returned:
\* its result after an exception or a stub; after blocked-looking markdown its
\* result if successful, else the local result with blocked and playwright_error
AfterBrowser(why, local, browser_result) ==
    IF why \in {"exception", "needs_playwright"} THEN browser_result
    ELSE IF browser_result.success THEN browser_result
    ELSE DictSet(DictSet(local[1], "blocked", TRUE), "playwright_error",
                 Get(browser_result, "error", "Playwright fallback failed"))

FetchUrls ==
    { UrlA,
      MkUrl("https", "www.zhihu.com", "", PathOf(<<"question", "1", "answer", "42">>, FALSE), <<>>),
      MkUrl("https", "zhuanlan.zhihu.com", "", PathOf(<<"p", "1">>, FALSE), <<>>),
      MkUrl("https", "forum.example", "", PathOf(<<"t", "topic", "42">>, FALSE), <<>>) }

InitFetch ==
    /\ fetch_pc = "idle"
    /\ fetch_entry = ""
    /\ fetch_url = EmptyUrl
    /\ fetch_mode = ""
    /\ fetch_why = ""
    /\ fetch_result = <<>>
    /\ fetch_log = <<>>
    /\ fetch_ret = <<>>
    /\ pw_result = <<>>

InitLib ==
    /\ call_fn = ""
    /\ call_arg = <<>>
    /\ call_ret = <<>>

\* Largest number of worker threads that call load_noise_rules.
NumThreads == 2

\* Largest number of load_noise_rules calls of one thread.
MaxLoads == 2

Threads == 1..NumThreads

\* a thread outside load_noise_rules that has called it calls times
Loader(at, calls, compiled, ret) == [at |-> at, calls |-> calls, compiled |-> compiled, ret |-> ret]

InitNoise ==
    /\ _CACHE = <<>>
    /\ loader = [t \in Threads |-> Loader("idle", 0, <<>>, <<>>)]
    /\ rule_reads = 0
    /\ cache_writes = 0

InitConfigGlobals ==
    /\ _RUNTIME_CONFIG = <<>>
    /\ _LOGGING_READY = FALSE
    /\ root_handlers = <<>>
    /\ runtime_ret = <<>>
    /\ completed_inits = 0

\* the module globals of noise_rules and config at process start
InitProc == InitNoise /\ InitConfigGlobals

InitBrowser ==
    /\ pw_pc = "idle"
    /\ pw_mode = ""
    /\ browser = "none"
    /\ context = "none"
    /\ pw_html = EmptyDoc
    /\ pw_pending = <<>>
    /\ pw_ret = <<>>

----------------------------------------------------------------------------
(* HTTP client: _curl_get_with_retries *)

_CURL_RETRYABLE_CODES == {18, 23, 28}

_CURL_RETRYABLE_HINTS ==
    {"Failed reading the chunked-encoded stream", "Operation timed out", "transfer closed with"}

\* an exception, by what its message holds: the number of "curl: (N)" if any,
\* the hint text it contains if any, and the status for an HTTP status error
CurlError(code, hint, status) == [code |-> code, hint |-> hint, status |-> status]

NoError == CurlError(<<>>, "", 0)

\* the exceptions curl_requests.get raises
TransportErrors ==
    { CurlError(<<23>>, "Failed reading the chunked-encoded stream", 0),
      CurlError(<<28>>, "Operation timed out", 0),
      CurlError(<<18>>, "", 0),
      CurlError(<<>>, "transfer closed with", 0),
      CurlError(<<6>>, "", 0),
      CurlError(<<>>, "", 0) }

Statuses == {200, 404, 500}

\* how one curl_requests.get ends: a response, or an exception
GetOutcomes ==
    [ok : {TRUE}, status : Statuses, error : {NoError}]
        \cup [ok : {FALSE}, status : {0}, error : TransportErrors]

\* a classifier that retries on every curl code
ClassifyAnyCode(error) ==
    [code |-> error.code, retryable |-> error.code # <<>> \/ error.hint \in _CURL_RETRYABLE_HINTS]

_classify_curl_exception(error) ==
    [ code |-> error.code,
      retryable |-> \/ (error.code # <<>> /\ error.code[1] \in _CURL_RETRYABLE_CODES)
                    \/ error.hint \in _CURL_RETRYABLE_HINTS ]

\* retries read as the number of attempts after the first
MaxAttemptsPlusOne(r) == r + 1

\* max_attempts = max(1, retries)
MaxAttempts(r) == Max(1, r)

\* the exception of an attempt: that of the GET, or that of response.raise_for_status()
AttemptError(o) ==
    IF ~o.ok THEN <<o.error>>
    ELSE IF o.status >= 400 THEN <<CurlError(<<>>, "", o.status)>>
    ELSE <<>>

NoOutcome == [ok |-> FALSE, status |-> 0, error |-> NoError]

Timeouts == {1, 15}

InitHttp ==
    /\ http_pc = "idle"
    /\ retries = 0
    /\ attempt = 0
    /\ effective_timeout_s = 0
    /\ http_log = <<>>
    /\ http_out = NoOutcome

CurlGetStart(r, timeout_s) ==
    /\ http_pc \in {"idle", "returned", "raised"}
    /\ http_pc' = "get"
    /\ retries' = r
    /\ attempt' = 1
    /\ effective_timeout_s' = timeout_s
    /\ http_log' = <<>>
    /\ http_out' = NoOutcome
    /\ UNCHANGED <<cfg, procVars, searchVars, fetchVars, browserVars, libVars>>

\* one pass of the loop body: the GET, raise_for_status, and the except clause
CurlAttempt(o) ==
    LET e == AttemptError(o)
        can_retry == _classify_curl_exception(e[1]).retryable /\ attempt < MaxAttempts(retries)
    IN
    /\ http_pc = "get"
    /\ http_log' = Append(http_log, o)
    /\ IF e = <<>>
       THEN /\ http_pc' = "returned"
            /\ http_out' = o
            /\ UNCHANGED effective_timeout_s
       ELSE IF ~can_retry
       THEN /\ http_pc' = "raised"
            /\ http_out' = [ok |-> FALSE, status |-> o.status, error |-> e[1]]
            /\ UNCHANGED effective_timeout_s
       ELSE /\ http_pc' = "sleep"
            /\ effective_timeout_s' = Max(effective_timeout_s * 2, effective_timeout_s + 10)
            /\ UNCHANGED http_out
    /\ UNCHANGED <<cfg, procVars, searchVars, fetchVars, browserVars, libVars, retries, attempt>>

\* time.sleep(0.3 * attempt), then the next pass
CurlSleep ==
    /\ http_pc = "sleep"
    /\ http_pc' = "get"
    /\ attempt' = attempt + 1
    /\ UNCHANGED <<cfg, procVars, searchVars, fetchVars, browserVars, libVars, retries, effective_timeout_s, http_log, http_out>>

InitHttpSpec ==
    /\ cfg \in {build_config(env) : env \in Environments}
    /\ InitSearch
    /\ InitHttp
    /\ InitFetch
    /\ InitBrowser
    /\ InitLib
    /\ InitProc

NextHttp ==
    \/ \E r \in 0..MaxRetries, t \in Timeouts : CurlGetStart(r, t)
    \/ \E o \in GetOutcomes : CurlAttempt(o)
    \/ CurlSleep

SpecHttp == InitHttpSpec /\ [][NextHttp]_vars

\* init_runtime: _RUNTIME_CONFIG = build_config(...)
Init ==
    /\ cfg \in {build_config(env) : env \in Environments}
    /\ InitSearch
    /\ InitHttp
    /\ InitFetch
    /\ InitBrowser
    /\ InitLib
    /\ InitProc

\* an AI task created whatever the configuration
UseAiAlways(c) == TRUE

\* use_ai = _llm_configured(): the AI task is created only then
UseAi(c) == llm_configured(c)

\* web_search up to the start of the tasks
WebSearchStart(q) ==
    /\ pc \in {"idle", "done", "raised"}
    /\ pc' = "gather"
    /\ query' = q
    /\ use_ai' = UseAi(cfg)
    /\ browser_task' = BrowserTask("brave", <<>>, InitialDiagnostics, "")
    /\ ai_task' = IF UseAi(cfg) THEN PendingAiTask ELSE NoTask
    /\ trace' = NoCalls
    /\ env_links' = 0
    /\ result' = NoResult
    /\ UNCHANGED <<cfg, procVars, httpVars, fetchVars, browserVars, libVars>>

\* how an LLM request ends: an error, or a reply that mentions up to n URLs of pool
LlmOutcomesOf(pool, n) ==
    [ok : {FALSE}, err : ErrorTexts, browse : {<<>>}, links : {<<>>}]
        \cup UNION {{[ok |-> TRUE, err |-> "", browse |-> b, links |-> l] :
                        l \in SeqsUpTo(pool, n - Len(b))} : b \in SeqsUpTo(pool, n)}

LlmOutcomes(n) == LlmOutcomesOf(UrlPool, n)

\* how the GET of a result page ends: an error, or a page of up to n hrefs of pool
PageOutcomesOf(pool, n) ==
    [ok : {FALSE}, err : ErrorTexts, hrefs : {<<>>}]
        \cup [ok : {TRUE}, err : {""}, hrefs : SeqsUpTo(pool, n)]

PageOutcomes(n) == PageOutcomesOf(UrlPool, n)

\* the AI task: the LLM request and the parsing of its reply
AiSearch(outcome) ==
    /\ pc = "gather"
    /\ ai_task.state = "pending"
    /\ ai_task' = [state |-> "returned", value |-> _ai_search_async(cfg, outcome), exc |-> ""]
    /\ trace' = [trace EXCEPT !.llm = IF llm_configured(cfg) THEN @ + 1 ELSE @,
                               !.llm_out = OutcomeOf(outcome.ok, outcome.browse \o outcome.links),
                               !.first = FirstDone(@, "ai")]
    /\ env_links' = env_links + Len(outcome.browse) + Len(outcome.links)
    /\ UNCHANGED <<cfg, procVars, pc, query, use_ai, browser_task, result, httpVars, fetchVars, browserVars, libVars>>

\* the browser task up to the return of _search_brave_core
BraveSearch(outcome) ==
    LET r == _search_brave_core(outcome, InternalLimit(cfg))
        diagnostics == [InitialDiagnostics EXCEPT
                           !.brave_error = IF r.raised THEN <<r.exc>> ELSE Absent,
                           !.brave_results = Len(r.results)]
    IN
    /\ pc = "gather"
    /\ browser_task.state = "brave"
    /\ browser_task' =
          IF BraveSufficient(r)
          THEN BrowserTask("returned", r.results, [diagnostics EXCEPT !.backend = "brave"], "")
          ELSE BrowserTask("ddg", <<>>, [diagnostics EXCEPT !.fallback_used = TRUE], "")
    /\ trace' = [trace EXCEPT !.brave = @ + 1,
                              !.brave_out = OutcomeOf(outcome.ok, r.results),
                              !.brave_exc = outcome.err,
                              !.first = IF BraveSufficient(r) THEN FirstDone(@, "browser") ELSE @]
    /\ env_links' = env_links + Len(outcome.hrefs)
    /\ UNCHANGED <<cfg, procVars, pc, query, use_ai, ai_task, result, httpVars, fetchVars, browserVars, libVars>>

\* the browser task from the call of _search_duckduckgo_core to its end
DdgSearch(outcome) ==
    LET r == _search_duckduckgo_core(outcome, InternalLimit(cfg))
        diagnostics == [browser_task.diagnostics EXCEPT
                           !.ddg_results = Len(r.results),
                           !.backend = IF r.results # <<>> THEN "ddg" ELSE @]
    IN
    /\ pc = "gather"
    /\ browser_task.state = "ddg"
    /\ browser_task' =
          IF r.raised
          THEN BrowserTask("raised", <<>>, browser_task.diagnostics, r.exc)
          ELSE BrowserTask("returned", r.results, diagnostics, "")
    /\ trace' = [trace EXCEPT !.ddg = @ + 1, !.ddg_out = OutcomeOf(outcome.ok, r.results),
                              !.first = FirstDone(@, "browser")]
    /\ env_links' = env_links + Len(outcome.hrefs)
    /\ UNCHANGED <<cfg, procVars, pc, query, use_ai, ai_task, result, httpVars, fetchVars, browserVars, libVars>>

\* the await of the tasks, the merge and the return
WebSearchJoin ==
    /\ pc = "gather"
    /\ IF use_ai THEN GatherDone(ai_task, browser_task) ELSE Finished(browser_task)
    /\ LET out == WebSearchReturn(cfg, query, use_ai, ai_task, browser_task, trace.first)
       IN /\ pc' = IF out.raised THEN "raised" ELSE "done"
          /\ result' = out.value
    /\ UNCHANGED <<cfg, procVars, query, use_ai, ai_task, browser_task, trace, env_links, httpVars, fetchVars, browserVars, libVars>>

Next ==
    \/ \E q \in Queries : WebSearchStart(q)
    \/ /\ pc = "gather" /\ ai_task.state = "pending"
       /\ \E o \in LlmOutcomes(MaxLinks - env_links) : AiSearch(o)
    \/ /\ pc = "gather" /\ browser_task.state = "brave"
       /\ \E o \in PageOutcomes(MaxLinks - env_links) : BraveSearch(o)
    \/ /\ pc = "gather" /\ browser_task.state = "ddg"
       /\ \E o \in PageOutcomes(MaxLinks - env_links) : DdgSearch(o)
    \/ WebSearchJoin

Spec == Init /\ [][Next]_vars

----------------------------------------------------------------------------
(* Search orchestrator: web_search on result pages with hrefs of any scheme *)

\* "httpx://c.com/x": a string that begins with the letters "http" and is
\* neither an http nor an https URL
UrlHttpx == MkUrl("httpx", "c.com", "", PathOf(<<"x">>, FALSE), <<>>)

\* "ftp://c.com/x"
UrlFtp == MkUrl("ftp", "c.com", "", PathOf(<<"x">>, FALSE), <<>>)

\* a DuckDuckGo redirector URL whose target is UrlHttpx
UrlWrappedHttpx ==
    MkUrl("https", "duckduckgo.com", "", PathOf(<<"l">>, TRUE), <<Redirect("uddg", UrlHttpx)>>)

\* the hrefs of the result pages
SchemePool == {UrlA, UrlHttpx, UrlFtp, UrlWrappedHttpx}

NextScheme ==
    \/ \E q \in Queries : WebSearchStart(q)
    \/ /\ pc = "gather" /\ ai_task.state = "pending"
       /\ \E o \in LlmOutcomesOf({UrlA}, MaxLinks - env_links) : AiSearch(o)
    \/ /\ pc = "gather" /\ browser_task.state = "brave"
       /\ \E o \in PageOutcomesOf(SchemePool, MaxLinks - env_links) : BraveSearch(o)
    \/ /\ pc = "gather" /\ browser_task.state = "ddg"
       /\ \E o \in PageOutcomesOf(SchemePool, MaxLinks - env_links) : DdgSearch(o)
    \/ WebSearchJoin

SpecScheme == Init /\ [][NextScheme]_vars

----------------------------------------------------------------------------
(* Page fetcher: the fetch tool *)

\* fetch from the call to its first await of _fetch_with_playwright, or to its
\* return when the browser is not used
FetchStart(url, env) ==
    LET r == _fetch(cfg, url, env)
        fallback == cfg.playwright_fallback
        await(why, local) ==
            /\ fetch_pc' = "playwright"
            /\ fetch_why' = why
            /\ fetch_result' = local
            /\ fetch_ret' = <<>>
        return(value) ==
            /\ fetch_pc' = "done"
            /\ fetch_why' = ""
            /\ fetch_result' = <<>>
            /\ fetch_ret' = <<value>>
    IN
    /\ fetch_pc \in {"idle", "done"}
    /\ pw_result' = <<>>
    /\ fetch_entry' = "fetch"
    /\ fetch_url' = url
    /\ fetch_mode' = "markdown"
    /\ fetch_log' = FetchRequests(cfg, url, env)
    /\ IF r.raised
       THEN IF fallback THEN await("exception", <<>>)
            ELSE return([success |-> FALSE, url |-> url, error |-> r.error])
       ELSE IF Get(r.value, "needs_playwright", FALSE) /\ fallback
       THEN await("needs_playwright", <<r.value>>)
       ELSE IF looks_like_blocked_text(Get(r.value, "markdown", EmptyDoc)) /\ fallback
       THEN await("blocked", <<r.value>>)
       ELSE return(r.value)
    /\ UNCHANGED <<cfg, procVars, searchVars, httpVars, browserVars, libVars>>

\* fetch from the completion of _fetch_with_playwright to its return
FetchPlaywright(b) ==
    LET browser_result == _fetch_with_playwright(cfg, fetch_url, "markdown", b)
    IN
    /\ fetch_pc = "playwright"
    /\ fetch_pc' = "done"
    /\ fetch_log' = IF ~cfg.playwright_fallback \/ b.failed = "import" THEN fetch_log
                    ELSE Append(fetch_log, Request("playwright", fetch_url))
    /\ pw_result' = <<browser_result>>
    /\ fetch_ret' = <<AfterBrowser(fetch_why, fetch_result, browser_result)>>
    /\ UNCHANGED <<cfg, procVars, searchVars, httpVars, browserVars, libVars, fetch_entry, fetch_url, fetch_mode, fetch_why,
                   fetch_result>>

\* _fetch_with_playwright(url, mode) called on its own
PlaywrightCall(url, mode, b) ==
    /\ fetch_pc \in {"idle", "done"}
    /\ fetch_pc' = "done"
    /\ pw_result' = <<>>
    /\ fetch_entry' = "_fetch_with_playwright"
    /\ fetch_url' = url
    /\ fetch_mode' = mode
    /\ fetch_why' = ""
    /\ fetch_result' = <<>>
    /\ fetch_log' = IF ~cfg.playwright_fallback \/ b.failed = "import" THEN <<>>
                    ELSE <<Request("playwright", url)>>
    /\ fetch_ret' = <<_fetch_with_playwright(cfg, url, mode, b)>>
    /\ UNCHANGED <<cfg, procVars, searchVars, httpVars, browserVars, libVars>>

\* the result pages the scrapers request for a query
SearchUrls ==
    [ brave |-> MkUrl("https", "search.brave.com", "", PathOf(<<"search">>, FALSE),
                      <<Param("q", "tla")>>),
      ddg |-> MkUrl("https", "duckduckgo.com", "", PathOf(<<"html">>, TRUE),
                    <<Param("q", "tla")>>) ]

\* the GET of _search_brave_core._fetch_and_parse or of the DuckDuckGo scraper
SearchGet(engine) ==
    /\ fetch_pc \in {"idle", "done"}
    /\ fetch_pc' = "idle"
    /\ fetch_entry' = engine
    /\ fetch_url' = SearchUrls[engine]
    /\ fetch_mode' = ""
    /\ fetch_why' = ""
    /\ fetch_result' = <<>>
    /\ fetch_log' = <<Request(engine, get_target_url(cfg, SearchUrls[engine]))>>
    /\ fetch_ret' = <<>>
    /\ pw_result' = <<>>
    /\ UNCHANGED <<cfg, procVars, searchVars, httpVars, browserVars, libVars>>

InitFetchSpec ==
    /\ cfg \in {build_config(env) : env \in Environments}
    /\ InitSearch
    /\ InitHttp
    /\ InitFetch
    /\ InitBrowser
    /\ InitLib
    /\ InitProc

NextFetch ==
    \/ \E url \in FetchUrls : \E env \in FetchEnvs(url) : FetchStart(url, env)
    \/ \E b \in BrowserEnvs : FetchPlaywright(b)
    \/ \E mode \in Modes, b \in BrowserEnvs : PlaywrightCall(UrlA, mode, b)
    \/ \E engine \in DOMAIN SearchUrls : SearchGet(engine)

SpecFetch == InitFetchSpec /\ [][NextFetch]_vars

----------------------------------------------------------------------------
(* Headless browser: the statements of _fetch_with_playwright *)

\* clean-up written after the body instead of in finally clauses
UnwindWithoutFinally(from, how) ==
    IF how = "raise" THEN "return"
    ELSE CASE from = "start" -> IF how = "fall" THEN "launch" ELSE "return"
           [] from = "launch" -> "new_context"
           [] from = "new_context" -> "navigate"
           [] from = "navigate" -> "content"
           [] from = "content" -> IF how = "fall" THEN "build" ELSE "context_close"
           [] from = "build" -> "context_close"
           [] from = "context_close" -> "browser_close"
           [] from = "browser_close" -> "return"

\* the statement that runs next when control leaves the statement at from:
\* how is "fall" (it completed), "return" or "raise". The finally clause of the
\* inner try closes the context, the finally clause of the outer one the browser.
Unwind(from, how) ==
    CASE from = "start" -> IF how = "fall" THEN "launch" ELSE "return"
      [] from = "launch" -> IF how = "fall" THEN "new_context" ELSE "return"
      [] from = "new_context" -> IF how = "fall" THEN "navigate" ELSE "browser_close"
      [] from = "navigate" -> IF how = "fall" THEN "content" ELSE "context_close"
      [] from = "content" -> IF how = "fall" THEN "build" ELSE "context_close"
      [] from = "build" -> "context_close"
      [] from = "context_close" -> "browser_close"
      [] from = "browser_close" -> "return"

\* lines 549-557: the configuration gate and the imports
PlaywrightStart(mode, imported) ==
    /\ pw_pc \in {"idle", "done"}
    /\ pw_mode' = mode
    /\ browser' = "none"
    /\ context' = "none"
    /\ pw_html' = EmptyDoc
    /\ pw_ret' = <<>>
    /\ IF ~cfg.playwright_fallback
       THEN /\ pw_pending' = <<Return(PlaywrightError(UrlA, "Playwright fallback disabled", FALSE))>>
            /\ pw_pc' = Unwind("start", "return")
       ELSE IF ~imported
       THEN /\ pw_pending' =
                  <<Return(PlaywrightError(UrlA, "Playwright not available: boom", FALSE))>>
            /\ pw_pc' = Unwind("start", "return")
       ELSE /\ pw_pending' = <<>>
            /\ pw_pc' = Unwind("start", "fall")
    /\ UNCHANGED <<cfg, procVars, searchVars, httpVars, fetchVars, libVars>>

\* lines 589-601: async_playwright() and p.chromium.launch(...)
Launch(ok) ==
    /\ pw_pc = "launch"
    /\ IF ok
       THEN /\ browser' = "open"
            /\ pw_pc' = Unwind("launch", "fall")
            /\ UNCHANGED pw_pending
       ELSE /\ pw_pending' = <<Raise("boom")>>
            /\ pw_pc' = Unwind("launch", "raise")
            /\ UNCHANGED browser
    /\ UNCHANGED <<cfg, procVars, searchVars, httpVars, fetchVars, libVars, pw_mode, context, pw_html, pw_ret>>

\* line 603: browser.new_context(...)
NewContext(ok) ==
    /\ pw_pc = "new_context"
    /\ IF ok
       THEN /\ context' = "open"
            /\ pw_pc' = Unwind("new_context", "fall")
            /\ UNCHANGED pw_pending
       ELSE /\ pw_pending' = <<Raise("boom")>>
            /\ pw_pc' = Unwind("new_context", "raise")
            /\ UNCHANGED context
    /\ UNCHANGED <<cfg, procVars, searchVars, httpVars, fetchVars, libVars, pw_mode, browser, pw_html, pw_ret>>

\* lines 605-622: the headers, the page, page.goto and the polling of the title
Navigate(ok) ==
    /\ pw_pc = "navigate"
    /\ IF ok
       THEN /\ pw_pc' = Unwind("navigate", "fall")
            /\ UNCHANGED pw_pending
       ELSE /\ pw_pending' = <<Raise("boom")>>
            /\ pw_pc' = Unwind("navigate", "raise")
    /\ UNCHANGED <<cfg, procVars, searchVars, httpVars, fetchVars, libVars, pw_mode, browser, context, pw_html, pw_ret>>

\* lines 624-631: page.content(), tried again once; content is <<>> when both
\* attempts raise, else the document read
PageContent(content) ==
    /\ pw_pc = "content"
    /\ IF content = <<>>
       THEN /\ pw_pending' = <<Return(PlaywrightError(UrlA, "boom", TRUE))>>
            /\ pw_pc' = Unwind("content", "return")
            /\ UNCHANGED pw_html
       ELSE /\ pw_html' = content[1]
            /\ pw_pc' = Unwind("content", "fall")
            /\ UNCHANGED pw_pending
    /\ UNCHANGED <<cfg, procVars, searchVars, httpVars, fetchVars, libVars, pw_mode, browser, context, pw_ret>>

\* lines 632-664: the result of the mode
BuildResult(e, metadata) ==
    LET r == _fetch_with_playwright(cfg, UrlA, pw_mode, Browser("", pw_html, e, metadata))
    IN
    /\ pw_pc = "build"
    /\ IF pw_mode \in {"text", "markdown"} /\ e.raised
       THEN /\ pw_pending' = <<Raise("boom")>>
            /\ pw_pc' = Unwind("build", "raise")
       ELSE /\ pw_pending' = <<Return(r)>>
            /\ pw_pc' = Unwind("build", "return")
    /\ UNCHANGED <<cfg, procVars, searchVars, httpVars, fetchVars, libVars, pw_mode, browser, context, pw_html, pw_ret>>

\* line 666: context.close() in the finally clause of the inner try
ContextClose(ok) ==
    /\ pw_pc = "context_close"
    /\ pw_pc' = Unwind("context_close", IF ok THEN "fall" ELSE "raise")
    /\ context' = IF ok THEN "closed" ELSE "close_raised"
    /\ pw_pending' = IF ok THEN pw_pending ELSE <<Raise("boom")>>
    /\ UNCHANGED <<cfg, procVars, searchVars, httpVars, fetchVars, libVars, pw_mode, browser, pw_html, pw_ret>>

\* line 668: browser.close() in the finally clause of the outer try
BrowserClose(ok) ==
    /\ pw_pc = "browser_close"
    /\ pw_pc' = Unwind("browser_close", IF ok THEN "fall" ELSE "raise")
    /\ browser' = IF ok THEN "closed" ELSE "close_raised"
    /\ pw_pending' = IF ok THEN pw_pending ELSE <<Raise("boom")>>
    /\ UNCHANGED <<cfg, procVars, searchVars, httpVars, fetchVars, libVars, pw_mode, context, pw_html, pw_ret>>

\* the return statement reached, or lines 669-670 for an exception
PlaywrightReturn ==
    /\ pw_pc = "return"
    /\ pw_pc' = "done"
    /\ pw_ret' = IF pw_pending[1].raised
                 THEN <<PlaywrightError(UrlA, pw_pending[1].error, TRUE)>>
                 ELSE <<pw_pending[1].value>>
    /\ UNCHANGED <<cfg, procVars, searchVars, httpVars, fetchVars, libVars, pw_mode, browser, context, pw_html,
                   pw_pending>>

PageContents == {<<>>, <<ShortDoc>>, <<BlockedDoc>>, <<LongDoc>>}

Metadatas == {Metadata("", <<>>, FALSE), Metadata("T", <<ShortDoc>>, TRUE)}

NextBrowser ==
    \/ \E mode \in Modes, imported \in BOOLEAN : PlaywrightStart(mode, imported)
    \/ \E ok \in BOOLEAN : Launch(ok)
    \/ \E ok \in BOOLEAN : NewContext(ok)
    \/ \E ok \in BOOLEAN : Navigate(ok)
    \/ \E content \in PageContents : PageContent(content)
    \/ \E e \in ExtractOutcomes, metadata \in Metadatas : BuildResult(e, metadata)
    \/ \E ok \in BOOLEAN : ContextClose(ok)
    \/ \E ok \in BOOLEAN : BrowserClose(ok)
    \/ PlaywrightReturn

SpecBrowser == Init /\ [][NextBrowser]_vars

----------------------------------------------------------------------------
(* Redirect unwrapping: unwrap_redirect_url applied to nested redirector URLs *)

\* Largest number of redirectors wrapped around a target.
MaxNesting == 2

RedirectorKinds ==
    {"duckduckgo", "zhihu", "brave", "google", "youtube", "steam", "facebook", "pinterest"}

\* a URL of the redirector that unwrap_redirect_url recognises, carrying target
Redirector(kind, target) ==
    CASE kind = "duckduckgo" ->
           MkUrl("https", "duckduckgo.com", "", PathOf(<<"l">>, TRUE), <<Redirect("uddg", target)>>)
      [] kind = "zhihu" ->
           MkUrl("https", "link.zhihu.com", "", PathOf(<<>>, TRUE), <<Redirect("target", target)>>)
      [] kind = "brave" ->
           MkUrl("https", "r.search.brave.com", "", PathOf(<<>>, TRUE), <<Redirect("url", target)>>)
      [] kind = "google" ->
           MkUrl("https", "www.google.com", "", PathOf(<<"url">>, FALSE), <<Redirect("q", target)>>)
      [] kind = "youtube" ->
           MkUrl("https", "www.youtube.com", "", PathOf(<<"redirect">>, FALSE),
                 <<Redirect("q", target)>>)
      [] kind = "steam" ->
           MkUrl("https", "steamcommunity.com", "", PathOf(<<"linkfilter">>, TRUE),
                 <<Redirect("url", target)>>)
      [] kind = "facebook" ->
           MkUrl("https", "l.facebook.com", "", PathOf(<<"l.php">>, FALSE), <<Redirect("u", target)>>)
      [] kind = "pinterest" ->
           MkUrl("https", "redirect.pinterest.com", "", PathOf(<<>>, TRUE),
                 <<Param("id", "1"), Redirect("to", target)>>)

\* the addresses redirectors are wrapped around: a page, a page with a query,
\* a protocol-relative address ("//a.com/x") and a t.co short link
UnwrapTargets ==
    { UrlA, UrlATracked,
      MkUrl("", "a.com", "", PathOf(<<"x">>, FALSE), <<>>),
      MkUrl("https", "t.co", "", PathOf(<<"x">>, FALSE), <<>>) }

\* the argument of a call: the address, the address it carries as its target
\* (<<>> for none), how many redirectors were wrapped around the innermost
\* target, and how many of them carry a target that starts with "http"
UnwrapArg(url, target, depth, layers) ==
    [url |-> url, target |-> target, depth |-> depth, layers |-> layers]

\* unwrap_redirect_url(url) on an address that is no redirector
UnwrapTarget(url) ==
    /\ call_fn' = "unwrap_redirect_url"
    /\ call_arg' = UnwrapArg(url, <<>>, 0, 0)
    /\ call_ret' = unwrap_redirect_url(url)
    /\ UNCHANGED <<cfg, procVars, searchVars, httpVars, fetchVars, browserVars>>

\* unwrap_redirect_url(url) on a redirector of the given kind that carries the
\* address of the last call
UnwrapRedirector(kind) ==
    LET target == call_arg.url
        url == Redirector(kind, target)
    IN
    /\ call_fn = "unwrap_redirect_url"
    /\ call_arg.depth < MaxNesting
    /\ call_arg' = UnwrapArg(url, <<target>>, call_arg.depth + 1,
                             IF StartsWithHttp(target) THEN call_arg.layers + 1 ELSE 0)
    /\ call_ret' = unwrap_redirect_url(url)
    /\ UNCHANGED <<cfg, procVars, searchVars, httpVars, fetchVars, browserVars, call_fn>>

NextUnwrap ==
    \/ \E url \in UnwrapTargets : UnwrapTarget(url)
    \/ \E kind \in RedirectorKinds : UnwrapRedirector(kind)

SpecUnwrap == Init /\ [][NextUnwrap]_vars

----------------------------------------------------------------------------
(* Dedup keys: normalize_url_for_dedup applied to two spellings of a URL *)

\* Largest number of changes made to a URL to obtain its second spelling.
MaxChanges == 3

\* query keys tried as tracking parameters: the keys of _TRACKING_QUERY_KEYS,
\* two of them in another case, and further keys that start with utm_ or share_
TrackingKeysTried ==
    _TRACKING_QUERY_KEYS
        \cup {"UTM_SOURCE", "Share_Id"}
        \cup {"utm_name", "utm_reader", "share_token", "share_type"}

DedupUrls ==
    { MkUrl("https", "a.com", "", PathOf(<<"x">>, FALSE), <<Param("page", "2"), Param("id", "1")>>),
      MkUrl("http", "A.COM", "", PathOf(<<>>, FALSE), <<>>),
      MkUrl("HTTPS", "a.com", "", PathOf(<<"x", "y">>, TRUE), <<Param("q", "t")>>) }

\* "k=t" put before or after the other pairs
AddTracking(url, k, front) ==
    [url EXCEPT !.query = IF front THEN <<Param(k, "t")>> \o @ ELSE Append(@, Param(k, "t"))]

ReverseQuery(url) ==
    [url EXCEPT !.query = [i \in 1..Len(@) |-> @[Len(@) + 1 - i]]]

\* a "/" added to or taken from the end of the path
ToggleSlash(url) == [url EXCEPT !.path = PathOf(@.segs, ~@.slash)]

\* ":80" (http) or ":443" (https) added to or taken from the host
ToggleDefaultPort(url) ==
    LET default == IF Lower(url.scheme) = "http" THEN "80" ELSE "443"
    IN [url EXCEPT !.port = IF @ = "" THEN default ELSE ""]

\* the argument of a call: the two spellings, the number of changes between
\* them, and the tracking keys that were added
DedupArg(url, other, changes, keys) ==
    [url |-> url, other |-> other, changes |-> changes, keys |-> keys]

DedupCall(arg) ==
    /\ call_fn' = "normalize_url_for_dedup"
    /\ call_arg' = arg
    /\ call_ret' = <<normalize_url_for_dedup(arg.url), normalize_url_for_dedup(arg.other)>>
    /\ UNCHANGED <<cfg, procVars, searchVars, httpVars, fetchVars, browserVars>>

\* normalize_url_for_dedup on a URL, twice
NormalizeSame(url) == DedupCall(DedupArg(url, url, 0, {}))

DedupMayChange ==
    /\ call_fn = "normalize_url_for_dedup"
    /\ call_arg.changes < MaxChanges

\* ... and on the second spelling with one more tracking parameter; one such
\* parameter is added at most
NormalizeTracked(k, front) ==
    /\ DedupMayChange
    /\ call_arg.keys = {}
    /\ DedupCall(DedupArg(call_arg.url, AddTracking(call_arg.other, k, front),
                          call_arg.changes + 1, {k}))

NormalizeReordered ==
    /\ DedupMayChange
    /\ DedupCall([call_arg EXCEPT !.other = ReverseQuery(@), !.changes = @ + 1])

NormalizeSlash ==
    /\ DedupMayChange
    /\ DedupCall([call_arg EXCEPT !.other = ToggleSlash(@), !.changes = @ + 1])

NormalizePort ==
    /\ DedupMayChange
    /\ DedupCall([call_arg EXCEPT !.other = ToggleDefaultPort(@), !.changes = @ + 1])

NextDedup ==
    \/ \E url \in DedupUrls : NormalizeSame(url)
    \/ \E k \in TrackingKeysTried, front \in BOOLEAN : NormalizeTracked(k, front)
    \/ NormalizeReordered
    \/ NormalizeSlash
    \/ NormalizePort

SpecDedup == Init /\ [][NextDedup]_vars

----------------------------------------------------------------------------
(* Noise cleaning: _clean_extracted_text and _clean_extracted_markdown *)

\* A text is the sequence of its lines (what splitlines yields), a line the
\* sequence of its symbols: " " is white space, "#" the number sign, "fence" a
\* code fence (three backquotes), "w" a word and "ad" a word that a noise rule matches.

\* Largest number of lines of a text.
MaxLines == 3

RECURSIVE LStrip(_)
\* str.lstrip()
LStrip(line) == IF line # <<>> /\ Head(line) = " " THEN LStrip(Tail(line)) ELSE line

RECURSIVE RStrip(_)
\* str.rstrip()
RStrip(line) ==
    IF line # <<>> /\ line[Len(line)] = " " THEN RStrip(SubSeq(line, 1, Len(line) - 1)) ELSE line

\* str.strip()
Strip(line) == LStrip(RStrip(line))

RECURSIVE LStripHash(_)
\* str.lstrip("#")
LStripHash(line) == IF line # <<>> /\ Head(line) = "#" THEN LStripHash(Tail(line)) ELSE line

\* str.startswith(symbol)
StartsWith(line, symbol) == line # <<>> /\ Head(line) = symbol

\* _is_noise_line: a rule matches the line
_is_noise_line(line) == Strip(line) # <<>> /\ \E i \in 1..Len(line) : line[i] = "ad"

\* re.sub(r"\s*#\s*$", "", line) on a line without white space at its end: the
\* last "#" and the white space before it are taken away
DropTrailingHash(line) ==
    IF line # <<>> /\ line[Len(line)] = "#"
    THEN RStrip(SubSeq(line, 1, Len(line) - 1))
    ELSE line

RECURSIVE CollapseBlankLines(_)
\* re.sub(r"\n{3,}", "\n\n", cleaned): no two empty lines in a row
CollapseBlankLines(lines) ==
    IF Len(lines) < 2 THEN lines
    ELSE IF lines[1] = <<>> /\ lines[2] = <<>> THEN CollapseBlankLines(Tail(lines))
    ELSE <<Head(lines)>> \o CollapseBlankLines(Tail(lines))

RECURSIVE DropLeadingBlank(_)
DropLeadingBlank(lines) ==
    IF lines # <<>> /\ Head(lines) = <<>> THEN DropLeadingBlank(Tail(lines)) ELSE lines

RECURSIVE DropTrailingBlank(_)
DropTrailingBlank(lines) ==
    IF lines # <<>> /\ lines[Len(lines)] = <<>>
    THEN DropTrailingBlank(SubSeq(lines, 1, Len(lines) - 1)) ELSE lines

\* "\n".join(lines), the collapse of empty lines, and .strip() on the whole
JoinAndStrip(lines) ==
    LET body == DropTrailingBlank(DropLeadingBlank(CollapseBlankLines(lines)))
    IN IF body = <<>> THEN <<>>
       ELSE [body EXCEPT ![1] = LStrip(@), ![Len(body)] = RStrip(@)]

RECURSIVE TextLines(_, _)
\* the loop of _clean_extracted_text over the raw lines not yet read
TextLines(raw_lines, lines) ==
    IF raw_lines = <<>> THEN lines
    ELSE LET line == Strip(Head(raw_lines))
         IN IF line = <<>>
            THEN TextLines(Tail(raw_lines),
                           IF lines # <<>> /\ lines[Len(lines)] # <<>>
                           THEN Append(lines, <<>>) ELSE lines)
            ELSE IF _is_noise_line(line) THEN TextLines(Tail(raw_lines), lines)
            ELSE TextLines(Tail(raw_lines), Append(lines, line))

_clean_extracted_text(text) ==
    IF text = <<>> THEN <<>> ELSE JoinAndStrip(TextLines(text, <<>>))

RECURSIVE MarkdownLines(_, _, _)
\* the loop of _clean_extracted_markdown over the raw lines not yet read
MarkdownLines(raw_lines, lines, in_code_block) ==
    IF raw_lines = <<>> THEN lines
    ELSE LET line == RStrip(Head(raw_lines))
             stripped == Strip(line)
             heading == IF StartsWith(stripped, "#") THEN DropTrailingHash(line) ELSE line
             candidate == IF StartsWith(Strip(heading), "#")
                          THEN Strip(LStripHash(Strip(heading)))
                          ELSE Strip(heading)
         IN IF StartsWith(stripped, "fence")
            THEN MarkdownLines(Tail(raw_lines), Append(lines, line), ~in_code_block)
            ELSE IF in_code_block
            THEN MarkdownLines(Tail(raw_lines), Append(lines, line), in_code_block)
            ELSE IF stripped = <<>>
            THEN MarkdownLines(Tail(raw_lines), Append(lines, <<>>), in_code_block)
            ELSE IF _is_noise_line(candidate)
            THEN MarkdownLines(Tail(raw_lines), lines, in_code_block)
            ELSE MarkdownLines(Tail(raw_lines), Append(lines, heading), in_code_block)

_clean_extracted_markdown(markdown) ==
    IF markdown = <<>> THEN <<>> ELSE JoinAndStrip(MarkdownLines(markdown, <<>>, FALSE))

\* the lines texts are made of: empty, blank, a word, an indented word, a noise
\* line, headings with no, one and two closing "#", a heading of noise, a fence
RawLines ==
    { <<>>, <<" ">>, <<"w">>, <<" ", "w", " ">>, <<"ad">>,
      <<"#", " ", "w">>,
      <<"#", "#", " ", "w", " ", "#">>,
      <<"#", "#", " ", "w", " ", "#", "#">>,
      <<"#", " ", "ad", " ", "#">>,
      <<"fence">> }

Cleaners == {"_clean_extracted_text", "_clean_extracted_markdown"}

\* the cleaner applied to the text of the last call with one more line
CleanExtracted(cleaner, line) ==
    LET text == Append(call_arg, line)
    IN
    /\ call_fn \in Cleaners \cup {""}
    /\ Len(call_arg) < MaxLines
    /\ call_fn' = cleaner
    /\ call_arg' = text
    /\ call_ret' = IF cleaner = "_clean_extracted_text" THEN _clean_extracted_text(text)
                   ELSE _clean_extracted_markdown(text)
    /\ UNCHANGED <<cfg, procVars, searchVars, httpVars, fetchVars, browserVars>>

NextClean == \E cleaner \in Cleaners, line \in RawLines : CleanExtracted(cleaner, line)

SpecClean == Init /\ [][NextClean]_vars

----------------------------------------------------------------------------
(* Content Extractor: the candidate list of _extract_best_content *)

\* Largest number of _add_candidate calls within one _extract_best_content.
MaxCandidates == 3

\* what the extractors hand to _add_candidate: None or "" (<<>>), and texts
\* some of which differ only in what the cleaners remove
RawContents ==
    { <<>>,
      << <<"w">> >>,
      << <<" ", "w", " ">> >>,
      << <<"ad">> >>,
      << <<"w">>, <<"ad">> >>,
      << <<"#", " ", "w">> >>,
      << <<"#", " ", "w", " ", "#">> >>,
      << <<"w">>, <<>>, <<"w">> >> }

Extractors == {"adapter:github+trafilatura", "trafilatura:precision", "bs4:text"}

OutputFormats == {"markdown", "text"}

\* _clean_for_mode
_clean_for_mode(output_format, text) ==
    IF output_format = "markdown" THEN _clean_extracted_markdown(text)
    ELSE _clean_extracted_text(text)

\* a key of seen_cleaned that tells the extractors apart
SeenKeyPerExtractor(cleaned, extractor) == <<cleaned, extractor>>

\* the member of seen_cleaned that stands for a candidate: its cleaned content
SeenKey(cleaned, extractor) == cleaned

\* the item _add_candidate builds, without the metrics of _score_content
Item(cleaned, extractor) == [content |-> cleaned, extractor |-> extractor, degraded |-> FALSE]

\* the locals of _extract_best_content that _add_candidate reads and writes,
\* and the value it returned (<<>> for None)
Extracting(candidates, seen_cleaned, item) ==
    [candidates |-> candidates, seen_cleaned |-> seen_cleaned, item |-> item]

_add_candidate(e, output_format, content, extractor) ==
    LET cleaned == _clean_for_mode(output_format, content)
    IN IF content = <<>> THEN [e EXCEPT !.item = <<>>]
       ELSE IF cleaned = <<>> THEN [e EXCEPT !.item = <<>>]
       ELSE IF SeenKey(cleaned, extractor) \in e.seen_cleaned THEN [e EXCEPT !.item = <<>>]
       ELSE Extracting(Append(e.candidates, Item(cleaned, extractor)),
                       e.seen_cleaned \cup {SeenKey(cleaned, extractor)},
                       <<Item(cleaned, extractor)>>)

\* the argument of the last step: the output format of the extractor call, the
\* content and extractor handed to _add_candidate, the number of its calls
AddArg(output_format, content, extractor, calls) ==
    [output_format |-> output_format, content |-> content, extractor |-> extractor,
     calls |-> calls]

\* _extract_best_content up to its first extractor
ExtractBestContent(output_format) ==
    /\ call_fn' = "_extract_best_content"
    /\ call_arg' = AddArg(output_format, <<>>, "", 0)
    /\ call_ret' = Extracting(<<>>, {}, <<>>)
    /\ UNCHANGED <<cfg, procVars, searchVars, httpVars, fetchVars, browserVars>>

\* one _add_candidate(content, extractor) of the running _extract_best_content
AddCandidate(content, extractor) ==
    /\ call_fn \in {"_extract_best_content", "_add_candidate"}
    /\ call_arg.calls < MaxCandidates
    /\ call_fn' = "_add_candidate"
    /\ call_arg' = AddArg(call_arg.output_format, content, extractor, call_arg.calls + 1)
    /\ call_ret' = _add_candidate(call_ret, call_arg.output_format, content, extractor)
    /\ UNCHANGED <<cfg, procVars, searchVars, httpVars, fetchVars, browserVars>>

NextExtract ==
    \/ \E output_format \in OutputFormats : ExtractBestContent(output_format)
    \/ \E content \in RawContents, extractor \in Extractors : AddCandidate(content, extractor)

SpecExtract == Init /\ [][NextExtract]_vars

----------------------------------------------------------------------------
(* Content Extractor: the candidate _extract_best_content returns *)

(* A candidate is modelled by its extractor tag and the metrics _score_content *)
(* computed for its cleaned content; the content itself by the tag of its     *)
(* producer and its length (char_len is len(content)).  The scores are inputs *)
(* of the model: every combination of ScoreValues and LengthValues.           *)

\* Largest number of candidates of one _extract_best_content.
MaxRanked == 3

\* build_config: default of EXTRACTION_MARKDOWN_MIN_CHARS
DefaultMarkdownMinChars == 120

\* build_config: default of EXTRACTION_TEXT_MIN_CHARS
DefaultTextMinChars == 200

Strategies == {"quality", "balanced", "speed"}

\* _INTERNAL_TUNING[strategy], the keys the model's extractors use
_INTERNAL_TUNING(strategy) ==
    CASE strategy = "quality" ->
           [adapter_min_quality |-> 10, general_min_quality |-> 30,
            bonus_adapter |-> 15, bonus_precision |-> 10,
            early_stop_enabled |-> TRUE, early_stop_quality |-> 80, early_stop_chars |-> 900]
      [] strategy = "balanced" ->
           [adapter_min_quality |-> 8, general_min_quality |-> 25,
            bonus_adapter |-> 13, bonus_precision |-> 9,
            early_stop_enabled |-> TRUE, early_stop_quality |-> 72, early_stop_chars |-> 700]
      [] strategy = "speed" ->
           [adapter_min_quality |-> 6, general_min_quality |-> 18,
            bonus_adapter |-> 10, bonus_precision |-> 8,
            early_stop_enabled |-> FALSE, early_stop_quality |-> 65, early_stop_chars |-> 600]

\* the extractors of a bangumi page, in the order the pipeline runs them:
\* _run_adapter_candidates, then the plans of _run_core_candidates
PlanOrder ==
    <<"adapter:bangumi+baseline", "adapter:bangumi+bs4", "trafilatura:precision", "bs4:text">>

\* extractor.startswith("adapter:")
IsAdapter(extractor) == extractor \in {"adapter:bangumi+baseline", "adapter:bangumi+bs4"}

PlanIndex(extractor) == CHOOSE i \in 1..Len(PlanOrder) : PlanOrder[i] = extractor

\* quality_score and char_len of the candidates
ScoreValues == {5, 20, 40, 90}

LengthValues == {50, 1000}

\* the title and the description _extract_title_and_description finds
Pages ==
    { [title |-> <<>>, description |-> <<>>],
      [title |-> <<"w">>, description |-> <<"w">>],
      [title |-> <<>>, description |-> <<"w">>],
      [title |-> <<"ad">>, description |-> <<>>] }

\* a text, by its producer and its length
Content(by, chars) == [by |-> by, chars |-> chars]

\* the item of _add_candidate with the metrics the selection reads
ScoredItem(extractor, quality_score, char_len) ==
    [ content |-> Content(extractor, char_len), extractor |-> extractor,
      quality_score |-> quality_score, char_len |-> char_len, degraded |-> FALSE ]

_extractor_bonus(extractor, tuning) ==
    IF IsAdapter(extractor) THEN tuning.bonus_adapter
    ELSE IF extractor = "trafilatura:precision" THEN tuning.bonus_precision
    ELSE 0

_rank_key(item, tuning) ==
    << item.quality_score + _extractor_bonus(item.extractor, tuning),
       item.quality_score, item.char_len >>

\* tuple comparison a < b
KeyLess(a, b) ==
    \/ a[1] < b[1]
    \/ a[1] = b[1] /\ a[2] < b[2]
    \/ a[1] = b[1] /\ a[2] = b[2] /\ a[3] < b[3]

_is_high_quality_candidate(item, min_chars, min_quality) ==
    item.char_len >= min_chars /\ item.quality_score >= min_quality

\* min_chars of _extract_best_content under the default configuration
MinChars(output_format) ==
    IF output_format = "markdown" THEN DefaultMarkdownMinChars ELSE DefaultTextMinChars

\* an early stop that asks only whether the tuning enables it
EarlyStopWhenEnabled(item, strategy, min_chars) ==
    LET tuning == _INTERNAL_TUNING(strategy)
    IN /\ tuning.early_stop_enabled
       /\ _is_high_quality_candidate(item, Max(min_chars, tuning.early_stop_chars),
                                     tuning.early_stop_quality)

_should_early_stop(item, strategy, min_chars) ==
    LET tuning == _INTERNAL_TUNING(strategy)
    IN /\ tuning.early_stop_enabled
       /\ strategy = "quality"
       /\ _is_high_quality_candidate(item, Max(min_chars, tuning.early_stop_chars),
                                     tuning.early_stop_quality)

RECURSIVE InsertRanked(_, _, _)
\* item put behind every item whose key is not smaller
InsertRanked(ranked, item, tuning) ==
    IF ranked = <<>> THEN <<item>>
    ELSE IF KeyLess(_rank_key(Head(ranked), tuning), _rank_key(item, tuning))
         THEN <<item>> \o ranked
    ELSE <<Head(ranked)>> \o InsertRanked(Tail(ranked), item, tuning)

RECURSIVE Ranked(_, _)
\* sorted(candidates, key=_rank_key, reverse=True): descending and stable
Ranked(candidates, tuning) ==
    IF candidates = <<>> THEN <<>>
    ELSE InsertRanked(Ranked(SubSeq(candidates, 1, Len(candidates) - 1), tuning),
                      candidates[Len(candidates)], tuning)

\* a selection that does not look at the adapters first
adapter_candidates_none(ranked) == <<>>

\* adapter_candidates
adapter_candidates(ranked) == SelectSeq(ranked, LAMBDA c : IsAdapter(c.extractor))

\* the first candidate of the list that passes, <<>> for none
FirstHighQuality(list, min_chars, min_quality) ==
    LET passing == SelectSeq(list, LAMBDA c : _is_high_quality_candidate(c, min_chars, min_quality))
    IN IF passing = <<>> THEN <<>> ELSE <<Head(passing)>>

RECURSIVE CharLen(_)
\* len() of a text of several lines
CharLen(lines) ==
    IF lines = <<>> THEN 0
    ELSE Len(Head(lines)) + (IF Len(lines) > 1 THEN 1 ELSE 0) + CharLen(Tail(lines))

\* _build_degraded_markdown / _build_degraded_text: <<>> stands for None
_build_degraded(output_format, page) ==
    LET title == IF page.title = <<>> THEN <<>>
                 ELSE IF output_format = "markdown" THEN << <<"#", " ">> \o page.title >>
                 ELSE <<page.title>>
        description == IF page.description = <<>> THEN <<>> ELSE <<page.description>>
    IN IF page.title = <<>> /\ page.description = <<>> THEN <<>>
       ELSE IF title # <<>> /\ description # <<>> THEN title \o << <<>> >> \o description
       ELSE title \o description

\* the record built from title and description
DegradedRecord(output_format, degraded) ==
    [ content |-> Content("meta:degraded", CharLen(_clean_for_mode(output_format, degraded))),
      extractor |-> "meta:degraded", degraded |-> TRUE ]

\* the empty terminal record
TerminalRecord == [content |-> Content("none", 0), extractor |-> "none", degraded |-> TRUE]

\* a last return that never falls back to a candidate
TerminalOnly(ranked) == TerminalRecord

\* return ranked[0] if ranked else {...}
FinalFallback(ranked) == IF ranked # <<>> THEN ranked[1] ELSE TerminalRecord

\* _extract_best_content from the sort of the candidates to its return
SelectCandidate(strategy, output_format, page, candidates) ==
    LET tuning == _INTERNAL_TUNING(strategy)
        min_chars == MinChars(output_format)
        ranked == Ranked(candidates, tuning)
        adapter == FirstHighQuality(adapter_candidates(ranked), min_chars,
                                    tuning.adapter_min_quality)
        general == FirstHighQuality(ranked, min_chars, tuning.general_min_quality)
        degraded == _build_degraded(output_format, page)
    IN IF adapter # <<>> THEN adapter[1]
       ELSE IF general # <<>> THEN general[1]
       ELSE IF strategy = "speed" /\ ranked # <<>> THEN ranked[1]
       ELSE IF degraded # <<>> THEN DegradedRecord(output_format, degraded)
       ELSE FinalFallback(ranked)

\* the call of the last step: its arguments, the candidates added so far, and
\* whether it ended by an early stop
SelectArg(strategy, output_format, page, candidates, early) ==
    [ strategy |-> strategy, output_format |-> output_format, page |-> page,
      candidates |-> candidates, early |-> early ]

\* _extract_best_content up to its first extractor
SelectStart(strategy, output_format, page) ==
    /\ call_fn \in {"", "_extract_best_content"}
    /\ call_fn' = "_run_candidates"
    /\ call_arg' = SelectArg(strategy, output_format, page, <<>>, FALSE)
    /\ call_ret' = <<>>
    /\ UNCHANGED <<cfg, procVars, searchVars, httpVars, fetchVars, browserVars>>

\* the next extractor that yields a new candidate; the call returns it when
\* _should_early_stop says so
RunCandidate(extractor, quality_score, char_len) ==
    LET item == ScoredItem(extractor, quality_score, char_len)
        early == _should_early_stop(item, call_arg.strategy, MinChars(call_arg.output_format))
    IN
    /\ call_fn = "_run_candidates"
    /\ Len(call_arg.candidates) < MaxRanked
    /\ \A i \in DOMAIN call_arg.candidates :
           PlanIndex(call_arg.candidates[i].extractor) < PlanIndex(extractor)
    /\ call_fn' = IF early THEN "_extract_best_content" ELSE call_fn
    /\ call_arg' = [call_arg EXCEPT !.candidates = Append(@, item), !.early = early]
    /\ call_ret' = IF early THEN <<item>> ELSE <<>>
    /\ UNCHANGED <<cfg, procVars, searchVars, httpVars, fetchVars, browserVars>>

\* no extractor is left or yields another candidate: the selection and the return
SelectReturn ==
    /\ call_fn = "_run_candidates"
    /\ call_fn' = "_extract_best_content"
    /\ call_ret' = <<SelectCandidate(call_arg.strategy, call_arg.output_format,
                                     call_arg.page, call_arg.candidates)>>
    /\ UNCHANGED <<cfg, procVars, searchVars, httpVars, fetchVars, browserVars, call_arg>>

\* the server under its default configuration
InitDefault ==
    /\ cfg = build_config(Environment("", "", EnvUnset, EnvUnset, <<>>, EnvUnset, <<>>))
    /\ InitSearch
    /\ InitHttp
    /\ InitFetch
    /\ InitBrowser
    /\ InitLib
    /\ InitProc

NextSelect ==
    \/ \E strategy \in Strategies, output_format \in OutputFormats, page \in Pages :
          SelectStart(strategy, output_format, page)
    \/ \E extractor \in {PlanOrder[i] : i \in 1..Len(PlanOrder)},
          quality_score \in ScoreValues, char_len \in LengthValues :
          RunCandidate(extractor, quality_score, char_len)
    \/ SelectReturn

SpecSelect == InitDefault /\ [][NextSelect]_vars

----------------------------------------------------------------------------
(* LLM client: _consume_sse_stream on a byte stream cut into chunks *)

(* The bytes of an SSE response are modelled by tokens:                      *)
(*   "d"    data: {"choices":[{"delta":{"content":"                          *)
(*   "r"    data: {"choices":[{"delta":{"reasoning":"                        *)
(*   "e"    "}}]}                                                            *)
(*   "done" data: [DONE]                                                     *)
(*   "nl"   the line feed                                                    *)
(*   "a"    an ASCII letter of a piece                                       *)
(*   "c3", "a9"  the two bytes of one two-byte UTF-8 character of a piece,   *)
(*          which decode to the character "e_acute"                          *)
(* A chunk boundary may fall between any two tokens.                         *)

\* Largest number of lines of a response.
MaxEvents == 2

\* Largest number of chunk boundaries within a response.
MaxCuts == 2

SseLines ==
    { <<"d", "c3", "a9", "e", "nl">>,
      <<"r", "a", "e", "nl">>,
      <<"d", "a", "e">>,
      <<"done", "nl">> }

RECURSIVE Flatten(_)
Flatten(seqs) == IF seqs = <<>> THEN <<>> ELSE Head(seqs) \o Flatten(Tail(seqs))

RECURSIVE ChunksOf(_, _, _)
\* bytes cut behind the positions of cuts; from is the position before the first byte
ChunksOf(bytes, cuts, from) ==
    IF bytes = <<>> THEN <<>>
    ELSE IF cuts = {} THEN <<bytes>>
    ELSE LET c == CHOOSE x \in cuts : \A y \in cuts : x <= y
         IN <<SubSeq(bytes, 1, c - from)>>
               \o ChunksOf(SubSeq(bytes, c - from + 1, Len(bytes)), cuts \ {c}, c)

RECURSIVE Utf8DecodeIgnore(_)
\* chunk.decode("utf-8", errors="ignore"): a byte that is no part of a whole
\* character within the chunk is dropped
Utf8DecodeIgnore(chunk) ==
    IF chunk = <<>> THEN <<>>
    ELSE IF Head(chunk) = "c3"
         THEN IF Len(chunk) > 1 /\ chunk[2] = "a9"
              THEN <<"e_acute">> \o Utf8DecodeIgnore(SubSeq(chunk, 3, Len(chunk)))
              ELSE Utf8DecodeIgnore(Tail(chunk))
    ELSE IF Head(chunk) = "a9" THEN Utf8DecodeIgnore(Tail(chunk))
    ELSE <<Head(chunk)>> \o Utf8DecodeIgnore(Tail(chunk))

\* the locals of _consume_sse_stream; failed: iter_content raised
SseState(pending, done, content_parts, reasoning_parts, failed) ==
    [ pending |-> pending, done |-> done, content_parts |-> content_parts,
      reasoning_parts |-> reasoning_parts, failed |-> failed ]

\* json.loads(data) succeeds on the line and yields a delta with a piece
HasPiece(line) ==
    /\ Len(line) >= 3
    /\ line[1] \in {"d", "r"}
    /\ line[Len(line)] = "e"
    /\ \A i \in 2..(Len(line) - 1) : line[i] \in {"a", "e_acute"}

\* _consume_sse_stream._consume_line
_consume_line(st, line) ==
    IF line = <<"done">> THEN [st EXCEPT !.done = TRUE]
    ELSE IF ~HasPiece(line) THEN st
    ELSE IF line[1] = "d"
         THEN [st EXCEPT !.content_parts = @ \o SubSeq(line, 2, Len(line) - 1)]
    ELSE [st EXCEPT !.reasoning_parts = @ \o SubSeq(line, 2, Len(line) - 1)]

RECURSIVE DrainLines(_)
\* while "\n" in pending: ... if done: break
DrainLines(st) ==
    LET at == {i \in 1..Len(st.pending) : st.pending[i] = "nl"}
        k == CHOOSE i \in at : \A j \in at : i <= j
    IN IF at = {} THEN st
       ELSE LET next == _consume_line(
                            [st EXCEPT !.pending = SubSeq(@, k + 1, Len(@))],
                            SubSeq(st.pending, 1, k - 1))
            IN IF next.done THEN next ELSE DrainLines(next)

RECURSIVE ChunkLoop(_, _, _)
\* for chunk in response.iter_content(): ...; fail = <<n>> when iter_content
\* raises after it yielded n more chunks, <<>> when it does not raise
ChunkLoop(chunks, fail, st) ==
    IF fail = <<0>> THEN [st EXCEPT !.failed = TRUE]
    ELSE IF chunks = <<>> THEN st
    ELSE LET left == IF fail = <<>> THEN <<>> ELSE <<fail[1] - 1>>
             next == IF Head(chunks) = <<>> THEN st
                     ELSE DrainLines([st EXCEPT !.pending = @ \o Utf8DecodeIgnore(Head(chunks))])
         IN IF next.done THEN next ELSE ChunkLoop(Tail(chunks), left, next)

\* an except clause that never re-raises
RaiseNever(content_parts, reasoning_parts) == FALSE

\* except Exception: if not content_parts and not reasoning_parts: raise
RaiseOnFailure(content_parts, reasoning_parts) ==
    content_parts = <<>> /\ reasoning_parts = <<>>

\* what a call left behind: whether it raised, the pair it returned, and
\* whether response.close() was called
SseOutcome(raised, failed, content, reasoning, closed) ==
    [ raised |-> raised, failed |-> failed, content |-> content, reasoning |-> reasoning,
      closed |-> closed ]

\* _consume_sse_stream
_consume_sse_stream(chunks, fail) ==
    LET st == ChunkLoop(chunks, fail, SseState(<<>>, FALSE, <<>>, <<>>, FALSE))
        raised == st.failed /\ RaiseOnFailure(st.content_parts, st.reasoning_parts)
        closed == TRUE
        last == IF st.pending # <<>> /\ ~st.done THEN _consume_line(st, st.pending) ELSE st
    IN IF raised THEN SseOutcome(TRUE, TRUE, <<>>, <<>>, closed)
       ELSE SseOutcome(FALSE, st.failed, last.content_parts, last.reasoning_parts, closed)

RECURSIVE SplitLines(_)
\* text.splitlines()
SplitLines(text) ==
    LET at == {i \in 1..Len(text) : text[i] = "nl"}
        k == CHOOSE i \in at : \A j \in at : i <= j
    IN IF text = <<>> THEN <<>>
       ELSE IF at = {} THEN <<text>>
       ELSE <<SubSeq(text, 1, k - 1)>> \o SplitLines(SubSeq(text, k + 1, Len(text)))

RECURSIVE ParseLoop(_, _)
ParseLoop(lines, st) ==
    IF lines = <<>> THEN st
    ELSE LET next == _consume_line(st, Head(lines))
         IN IF next.done THEN next ELSE ParseLoop(Tail(lines), next)

\* _parse_sse_chat_completions: the whole text, line by line
_parse_sse_chat_completions(text) ==
    LET st == ParseLoop(SplitLines(text), SseState(<<>>, FALSE, <<>>, <<>>, FALSE))
    IN <<st.content_parts, st.reasoning_parts>>

\* the response of the last call: its lines, the positions behind which the
\* stream is cut into chunks, and after how many chunks reading fails (<<>>: never)
SseArg(lines, cuts, fail) == [lines |-> lines, cuts |-> cuts, fail |-> fail]

SseCall(arg) ==
    /\ call_fn' = "_consume_sse_stream"
    /\ call_arg' = arg
    /\ call_ret' = _consume_sse_stream(ChunksOf(Flatten(arg.lines), arg.cuts, 0), arg.fail)
    /\ UNCHANGED <<cfg, procVars, searchVars, httpVars, fetchVars, browserVars>>

\* _consume_sse_stream on an empty response
SseEmpty == SseCall(SseArg(<<>>, {}, <<>>))

SseCalled == call_fn = "_consume_sse_stream"

\* ... on the response of the last call with one more line
SseLine(line) ==
    /\ SseCalled
    /\ call_arg.cuts = {} /\ call_arg.fail = <<>>
    /\ Len(call_arg.lines) < MaxEvents
    /\ SseCall([call_arg EXCEPT !.lines = Append(@, line)])

\* ... with one more chunk boundary, behind byte pos
SseCut(pos) ==
    /\ SseCalled
    /\ call_arg.fail = <<>>
    /\ Cardinality(call_arg.cuts) < MaxCuts
    /\ pos < Len(Flatten(call_arg.lines))
    /\ \A c \in call_arg.cuts : c < pos
    /\ SseCall([call_arg EXCEPT !.cuts = @ \cup {pos}])

\* ... with iter_content raising after n chunks
SseFail(n) ==
    /\ SseCalled
    /\ call_arg.fail = <<>>
    /\ n <= Len(ChunksOf(Flatten(call_arg.lines), call_arg.cuts, 0))
    /\ SseCall([call_arg EXCEPT !.fail = <<n>>])

NextSse ==
    \/ SseEmpty
    \/ \E line \in SseLines : SseLine(line)
    \/ \E pos \in 1..(5 * (MaxEvents + 1)) : SseCut(pos)
    \/ \E n \in 0..(MaxCuts + 2) : SseFail(n)

SpecSse == InitDefault /\ [][NextSse]_vars

----------------------------------------------------------------------------
(* Noise rules: load_noise_rules called by worker threads *)

(* fetch runs _fetch, and with it _score_content and load_noise_rules, on the *)
(* threads of the default executor; the module has no lock.  A thread takes   *)
(* the steps of load_noise_rules one at a time: the test of _CACHE, the read  *)
(* of the rule files, the assignment of _CACHE, and the read of _CACHE for    *)
(* the return.  The rules read are modelled by the thread and the number of   *)
(* the read that produced them.                                               *)

\* the tuple built from one read of the rule files
Rules(t, n) == [by |-> t, read |-> n]

\* global _CACHE; if _CACHE is not None: return _CACHE
LoadCall(t) ==
    /\ loader[t].at \in {"idle", "done"}
    /\ loader[t].calls < MaxLoads
    /\ loader' = [loader EXCEPT ![t] =
                     IF _CACHE # <<>>
                     THEN Loader("done", @.calls + 1, <<>>, _CACHE)
                     ELSE Loader("read", @.calls + 1, <<>>, <<>>)]
    /\ UNCHANGED <<cfg, searchVars, httpVars, fetchVars, browserVars, libVars, runtimeVars,
                   _CACHE, rule_reads, cache_writes>>

\* the loop over _RULE_FILES with _parse_rule_file, and the compilation
LoadRead(t) ==
    /\ loader[t].at = "read"
    /\ rule_reads' = rule_reads + 1
    /\ loader' = [loader EXCEPT ![t].at = "assign", ![t].compiled = <<Rules(t, rule_reads + 1)>>]
    /\ UNCHANGED <<cfg, searchVars, httpVars, fetchVars, browserVars, libVars, runtimeVars,
                   _CACHE, cache_writes>>

\* _CACHE = (tuple(compiled), tuple(substring_sources))
LoadAssign(t) ==
    /\ loader[t].at = "assign"
    /\ _CACHE' = loader[t].compiled
    /\ cache_writes' = cache_writes + 1
    /\ loader' = [loader EXCEPT ![t].at = "return"]
    /\ UNCHANGED <<cfg, searchVars, httpVars, fetchVars, browserVars, libVars, runtimeVars,
                   rule_reads>>

\* return _CACHE
LoadReturn(t) ==
    /\ loader[t].at = "return"
    /\ loader' = [loader EXCEPT ![t].at = "done", ![t].ret = _CACHE]
    /\ UNCHANGED <<cfg, searchVars, httpVars, fetchVars, browserVars, libVars, runtimeVars,
                   _CACHE, rule_reads, cache_writes>>

NextNoise ==
    \E t \in Threads : LoadCall(t) \/ LoadRead(t) \/ LoadAssign(t) \/ LoadReturn(t)

SpecNoise == InitDefault /\ [][NextNoise]_vars

----------------------------------------------------------------------------
(* Configuration: build_config read from argv and from every variable *)

\* A text is a sequence of units: " " is a blank, every other unit is a run
\* of characters without blanks.  An optional text is <<>> (None) or <<text>>.

\* Largest number of flags and variables given to one build_config call of
\* the flag specification.
MaxGiven == 2

\* Largest number of variables set in one environment of the variable
\* specification.
MaxVars == 2

\* str.upper() on the units the model uses
Upper(unit) ==
    CASE unit = "debug" -> "DEBUG"
      [] unit = "verbose" -> "VERBOSE"
      [] OTHER -> unit

LowerText(text) == [i \in DOMAIN text |-> Lower(text[i])]

UpperText(text) == [i \in DOMAIN text |-> Upper(text[i])]

\* the units int() reads as a number
IntUnits == {"0", "7", "-1", "600", "768", "800", "1366"}

IntValue(unit) ==
    CASE unit = "0" -> 0
      [] unit = "7" -> 7
      [] unit = "-1" -> 0 - 1
      [] unit = "600" -> 600
      [] unit = "768" -> 768
      [] unit = "800" -> 800
      [] unit = "1366" -> 1366

\* int(text): <<n>>, or <<>> for a ValueError
ParseIntText(text) ==
    IF Len(Strip(text)) = 1 /\ Strip(text)[1] \in IntUnits
    THEN <<IntValue(Strip(text)[1])>> ELSE <<>>

\* a line build_config prints to stderr; each begins with "[config]"
Note(what, field_name) == [prefix |-> "[config]", what |-> what, field |-> field_name]

\* what a parser returns and what it printed
Parsed(value, notes) == [value |-> value, notes |-> notes]

\* _normalize_optional on texts
NormalizeOptional(value) ==
    IF value = <<>> THEN <<>>
    ELSE IF Strip(value[1]) = <<>> THEN <<>> ELSE <<Strip(value[1])>>

\* Python's "value or default" for an optional text
OrElse(value, default) == IF value # <<>> /\ value[1] # <<>> THEN value[1] ELSE default

\* the attributes of the logging module that are integers
LoggingLevels == {"CRITICAL", "FATAL", "ERROR", "WARNING", "WARN", "INFO", "DEBUG", "NOTSET"}

_normalize_log_level(value) ==
    LET text == UpperText(Strip(OrElse(value, <<"INFO">>)))
    IN IF Len(text) = 1 /\ text[1] \in LoggingLevels
       THEN Parsed(text, <<>>)
       ELSE Parsed(<<"INFO">>, <<Note("invalid LOG_LEVEL", "LOG_LEVEL")>>)

\* _parse_bool on texts
ParseBool(value, default, field_name) ==
    IF value = <<>> THEN Parsed(default, <<>>)
    ELSE LET text == LowerText(Strip(value[1]))
         IN IF text \in {<<"1">>, <<"true">>, <<"yes">>, <<"on">>} THEN Parsed(TRUE, <<>>)
            ELSE IF text \in {<<"0">>, <<"false">>, <<"no">>, <<"off">>} THEN Parsed(FALSE, <<>>)
            ELSE Parsed(default, <<Note("invalid boolean", field_name)>>)

\* a _parse_int that accepts every number it can read
ParseIntNoMinimum(value, default, minimum, field_name) ==
    IF value = <<>> THEN Parsed(default, <<>>)
    ELSE IF ParseIntText(value[1]) = <<>>
         THEN Parsed(default, <<Note("invalid integer", field_name)>>)
    ELSE Parsed(ParseIntText(value[1])[1], <<>>)

\* _parse_int on texts
ParseInt(value, default, minimum, field_name) ==
    IF value = <<>> THEN Parsed(default, <<>>)
    ELSE IF ParseIntText(value[1]) = <<>>
         THEN Parsed(default, <<Note("invalid integer", field_name)>>)
    ELSE IF ParseIntText(value[1])[1] < minimum
         THEN Parsed(default, <<Note("below minimum", field_name)>>)
    ELSE Parsed(ParseIntText(value[1])[1], <<>>)

\* _parse_choice
_parse_choice(value, default, choices, field_name) ==
    IF value = <<>> THEN Parsed(default, <<>>)
    ELSE LET text == LowerText(Strip(value[1]))
         IN IF Len(text) = 1 /\ text[1] \in choices THEN Parsed(text[1], <<>>)
            ELSE Parsed(default, <<Note("invalid value", field_name)>>)

\* the index of the first unit of text that equals sep, 0 when there is none
IndexOf(text, sep) ==
    IF \E i \in DOMAIN text : text[i] = sep
    THEN CHOOSE i \in DOMAIN text : text[i] = sep /\ \A j \in 1..(i - 1) : text[j] # sep
    ELSE 0

\* int(w) for a piece of a viewport text, whose blanks are already removed
PieceInt(piece) == IF Len(piece) = 1 /\ piece[1] \in IntUnits THEN <<IntValue(piece[1])>> ELSE <<>>

\* _parse_viewport(raw): <<>> for None, else <<[width, height]>>
_parse_viewport(raw) ==
    IF raw = <<>> THEN <<>>
    ELSE LET text == SelectSeq(LowerText(raw), LAMBDA unit : unit # " ")
             sep == IF IndexOf(text, "x") > 0 THEN "x"
                    ELSE IF IndexOf(text, ",") > 0 THEN "," ELSE ""
             at == IndexOf(text, sep)
             w == SubSeq(text, 1, at - 1)
             h == SubSeq(text, at + 1, Len(text))
         IN IF sep = "" THEN <<>>
            ELSE IF PieceInt(w) = <<>> \/ PieceInt(h) = <<>> THEN <<>>
            ELSE <<[width |-> PieceInt(w)[1], height |-> PieceInt(h)[1]]>>

\* float(text), written as the text of the number; <<>> for a ValueError
ParseFloat(text) ==
    IF Strip(text) = <<"2">> THEN <<"2.0">>
    ELSE IF Strip(text) = <<"1.5">> THEN <<"1.5">>
    ELSE <<>>

\* the flags of _build_parser and the variable each one overrides
Flags == {"--proxy", "--cf-worker", "--openai-api-key", "--openai-base-url",
          "--openai-model", "--log-level"}

FlagVar(flag) ==
    CASE flag = "--proxy" -> "PROXY"
      [] flag = "--cf-worker" -> "CF_WORKER"
      [] flag = "--openai-api-key" -> "OPENAI_API_KEY"
      [] flag = "--openai-base-url" -> "OPENAI_BASE_URL"
      [] flag = "--openai-model" -> "OPENAI_MODEL"
      [] flag = "--log-level" -> "LOG_LEVEL"

\* the variables build_config reads, in the order it reads them
EnvKeys ==
    << "PROXY", "CF_WORKER", "OPENAI_API_KEY", "OPENAI_BASE_URL", "OPENAI_MODEL", "LOG_LEVEL",
       "USER_AGENT", "CURL_IMPERSONATE", "HTTP_VERSION", "MAX_TOKEN_LIMIT", "FETCH_TIMEOUT_S",
       "SEARCH_TIMEOUT_S", "SEARCH_RESULT_LIMIT", "PLAYWRIGHT_FALLBACK", "PLAYWRIGHT_TIMEOUT_MS",
       "PLAYWRIGHT_CHALLENGE_WAIT", "EXTRACTION_STRATEGY", "EXTRACTION_MARKDOWN_MIN_CHARS",
       "EXTRACTION_TEXT_MIN_CHARS", "SEARCH_MAX_PER_DOMAIN", "PW_USER_AGENT",
       "PW_CHROMIUM_EXECUTABLE_PATH", "PW_EXECUTABLE_PATH", "PLAYWRIGHT_EXECUTABLE_PATH",
       "PW_DEVICE_SCALE", "PW_HEADLESS", "PW_ACCEPT_LANGUAGE", "PW_LOCALE", "PW_TIMEZONE",
       "PW_VIEWPORT" >>

EnvKeySet == {EnvKeys[i] : i \in DOMAIN EnvKeys}

\* a _pick that prefers the environment
PickEnvFirst(cli_value, env, env_key, default) ==
    IF env[env_key] # <<>> THEN env[env_key]
    ELSE IF cli_value # <<>> THEN cli_value ELSE default

\* _pick
_pick(cli_value, env, env_key, default) ==
    IF cli_value # <<>> THEN cli_value
    ELSE IF env[env_key] # <<>> THEN env[env_key] ELSE default

\* env_map.get(key, default) for a text default
GetText(env, key, default) == IF env[key] # <<>> THEN env[key][1] ELSE default

\* build_config(argv, env): the AppConfig and the lines printed to stderr
BuildConfig(args, env) ==
    LET log_level == _normalize_log_level(_pick(args["--log-level"], env, "LOG_LEVEL", <<<<"INFO">>>>))
        user_agent == OrElse(NormalizeOptional(env["USER_AGENT"]), <<"Mozilla/5.0">>)
        max_token_limit == ParseInt(env["MAX_TOKEN_LIMIT"], 10000, 1, "MAX_TOKEN_LIMIT")
        fetch_timeout_s == ParseInt(env["FETCH_TIMEOUT_S"], 15, 1, "FETCH_TIMEOUT_S")
        search_timeout_s == ParseInt(env["SEARCH_TIMEOUT_S"], 60, 1, "SEARCH_TIMEOUT_S")
        search_result_limit == ParseInt(env["SEARCH_RESULT_LIMIT"], 25, 1, "SEARCH_RESULT_LIMIT")
        playwright_fallback == ParseBool(env["PLAYWRIGHT_FALLBACK"], TRUE, "PLAYWRIGHT_FALLBACK")
        playwright_timeout_ms ==
            ParseInt(env["PLAYWRIGHT_TIMEOUT_MS"], 60000, 1, "PLAYWRIGHT_TIMEOUT_MS")
        playwright_challenge_wait ==
            ParseInt(env["PLAYWRIGHT_CHALLENGE_WAIT"], 20, 1, "PLAYWRIGHT_CHALLENGE_WAIT")
        extraction_strategy ==
            _parse_choice(env["EXTRACTION_STRATEGY"], "quality",
                          {"quality", "balanced", "speed"}, "EXTRACTION_STRATEGY")
        extraction_markdown_min_chars ==
            ParseInt(env["EXTRACTION_MARKDOWN_MIN_CHARS"], 120, 1, "EXTRACTION_MARKDOWN_MIN_CHARS")
        extraction_text_min_chars ==
            ParseInt(env["EXTRACTION_TEXT_MIN_CHARS"], 200, 1, "EXTRACTION_TEXT_MIN_CHARS")
        search_max_per_domain ==
            ParseInt(env["SEARCH_MAX_PER_DOMAIN"], 2, 0, "SEARCH_MAX_PER_DOMAIN")
        pw_executable ==
            IF NormalizeOptional(env["PW_CHROMIUM_EXECUTABLE_PATH"]) # <<>>
            THEN NormalizeOptional(env["PW_CHROMIUM_EXECUTABLE_PATH"])
            ELSE IF NormalizeOptional(env["PW_EXECUTABLE_PATH"]) # <<>>
            THEN NormalizeOptional(env["PW_EXECUTABLE_PATH"])
            ELSE NormalizeOptional(env["PLAYWRIGHT_EXECUTABLE_PATH"])
        pw_device_scale ==
            IF ParseFloat(GetText(env, "PW_DEVICE_SCALE", <<"2">>)) # <<>>
            THEN ParseFloat(GetText(env, "PW_DEVICE_SCALE", <<"2">>))[1] ELSE "2.0"
        headless == ParseBool(env["PW_HEADLESS"], TRUE, "PW_HEADLESS")
    IN
    [ config |->
        [ proxy |-> NormalizeOptional(_pick(args["--proxy"], env, "PROXY", <<>>)),
          cf_worker_url |-> NormalizeOptional(_pick(args["--cf-worker"], env, "CF_WORKER", <<>>)),
          openai_api_key |->
              NormalizeOptional(_pick(args["--openai-api-key"], env, "OPENAI_API_KEY", <<>>)),
          openai_base_url |->
              NormalizeOptional(_pick(args["--openai-base-url"], env, "OPENAI_BASE_URL", <<>>)),
          openai_model |->
              OrElse(NormalizeOptional(_pick(args["--openai-model"], env, "OPENAI_MODEL",
                                             <<<<"gpt-4o">>>>)), <<"gpt-4o">>),
          user_agent |-> user_agent,
          max_token_limit |-> max_token_limit.value,
          curl_impersonate |-> OrElse(NormalizeOptional(env["CURL_IMPERSONATE"]), <<"chrome110">>),
          http_version |-> OrElse(NormalizeOptional(env["HTTP_VERSION"]), <<"v1">>),
          fetch_timeout_s |-> fetch_timeout_s.value,
          search_timeout_s |-> search_timeout_s.value,
          search_result_limit |-> search_result_limit.value,
          playwright_fallback |-> playwright_fallback.value,
          playwright_timeout_ms |-> playwright_timeout_ms.value,
          playwright_challenge_wait |-> playwright_challenge_wait.value,
          search_max_per_domain |-> search_max_per_domain.value,
          playwright |->
              [ headless |-> headless.value,
                user_agent |-> OrElse(NormalizeOptional(env["PW_USER_AGENT"]), user_agent),
                accept_language |->
                    OrElse(NormalizeOptional(env["PW_ACCEPT_LANGUAGE"]), <<"zh-CN,zh;q=0.9">>),
                locale |-> OrElse(NormalizeOptional(env["PW_LOCALE"]), <<"zh-CN">>),
                timezone_id |-> OrElse(NormalizeOptional(env["PW_TIMEZONE"]), <<"Asia/Shanghai">>),
                viewport |-> _parse_viewport(GetText(env, "PW_VIEWPORT", <<"1366", "x", "768">>)),
                device_scale_factor |-> pw_device_scale,
                executable_path |-> pw_executable ],
          extraction |->
              [ strategy |-> extraction_strategy.value,
                markdown_min_chars |-> extraction_markdown_min_chars.value,
                text_min_chars |-> extraction_text_min_chars.value ],
          log_level |-> log_level.value ],
      stderr |->
          log_level.notes \o max_token_limit.notes \o fetch_timeout_s.notes
              \o search_timeout_s.notes \o search_result_limit.notes
              \o playwright_fallback.notes \o playwright_timeout_ms.notes
              \o playwright_challenge_wait.notes \o extraction_strategy.notes
              \o extraction_markdown_min_chars.notes \o extraction_text_min_chars.notes
              \o search_max_per_domain.notes \o headless.notes ]

\* the arguments and the environment of a call without flags and variables
NoArgs == [flag \in Flags |-> <<>>]

NoEnv == [key \in EnvKeySet |-> <<>>]

\* the texts tried as the value of a flag
FlagTexts(flag) ==
    IF flag = "--log-level" THEN {<<>>, <<"debug">>, <<"verbose">>}
    ELSE {<<>>, <<"cli">>, <<" ", "cli", " ">>}

IntKeys ==
    {"MAX_TOKEN_LIMIT", "FETCH_TIMEOUT_S", "SEARCH_TIMEOUT_S", "SEARCH_RESULT_LIMIT",
     "PLAYWRIGHT_TIMEOUT_MS", "PLAYWRIGHT_CHALLENGE_WAIT", "EXTRACTION_MARKDOWN_MIN_CHARS",
     "EXTRACTION_TEXT_MIN_CHARS", "SEARCH_MAX_PER_DOMAIN"}

BoolKeys == {"PLAYWRIGHT_FALLBACK", "PW_HEADLESS"}

\* the texts tried as the value of a variable: the empty text, a blank, and
\* texts its parser accepts and rejects
VarTexts(key) ==
    {<<>>, <<" ">>} \cup
    ( CASE key \in IntKeys -> {<<" ", "7">>, <<"abc">>, <<"0">>, <<"-1">>}
        [] key \in BoolKeys -> {<<"OFF", " ">>, <<"maybe">>}
        [] key = "EXTRACTION_STRATEGY" -> {<<" ", "Speed">>, <<"fast">>}
        [] key = "LOG_LEVEL" -> {<<"ERROR">>, <<"verbose">>}
        [] key = "PW_VIEWPORT" -> {<<"800", "X", " ", "600">>, <<"800", ",", "600">>, <<"wide">>}
        [] key = "PW_DEVICE_SCALE" -> {<<" ", "1.5">>, <<"abc">>}
        [] OTHER -> {<<" ", "env">>} )

GivenFlags(arg) == {flag \in Flags : arg.args[flag] # <<>>}

SetKeys(arg) == {key \in EnvKeySet : arg.env[key] # <<>>}

\* the variables build_config reads after every variable that is set
LaterKeys(arg) ==
    LET set == {i \in DOMAIN EnvKeys : arg.env[EnvKeys[i]] # <<>>}
    IN {EnvKeys[i] : i \in {j \in DOMAIN EnvKeys : \A k \in set : k < j}}

ConfigArg(args, env) == [args |-> args, env |-> env]

\* cfg = build_config(argv=argv, env=env)
ConfigCall(args, env) ==
    /\ call_fn' = "build_config"
    /\ call_arg' = ConfigArg(args, env)
    /\ call_ret' = BuildConfig(args, env)
    /\ UNCHANGED <<cfg, procVars, searchVars, httpVars, fetchVars, browserVars>>

\* build_config(argv=[], env={})
BuildStart ==
    /\ call_fn = ""
    /\ ConfigCall(NoArgs, NoEnv)

\* the call of before with one more flag on the command line
GiveFlag(flag, text) ==
    /\ call_fn = "build_config"
    /\ call_arg.args[flag] = <<>>
    /\ Cardinality(GivenFlags(call_arg)) + Cardinality(SetKeys(call_arg)) < MaxGiven
    /\ ConfigCall([call_arg.args EXCEPT ![flag] = <<text>>], call_arg.env)

\* the call of before with one more of the variables a flag overrides
SetFlagVar(flag, text) ==
    /\ call_fn = "build_config"
    /\ call_arg.env[FlagVar(flag)] = <<>>
    /\ Cardinality(GivenFlags(call_arg)) + Cardinality(SetKeys(call_arg)) < MaxGiven
    /\ ConfigCall(call_arg.args, [call_arg.env EXCEPT ![FlagVar(flag)] = <<text>>])

\* the call of before with one more variable, the variables taken in the
\* order build_config reads them
SetVar(key, text) ==
    /\ call_fn = "build_config"
    /\ Cardinality(SetKeys(call_arg)) < MaxVars
    /\ key \in LaterKeys(call_arg)
    /\ ConfigCall(call_arg.args, [call_arg.env EXCEPT ![key] = <<text>>])

NextPick ==
    \/ BuildStart
    \/ \E flag \in Flags : \E text \in FlagTexts(flag) : GiveFlag(flag, text)
    \/ \E flag \in Flags : \E text \in VarTexts(FlagVar(flag)) : SetFlagVar(flag, text)

SpecPick == InitDefault /\ [][NextPick]_vars

NextEnv ==
    \/ BuildStart
    \/ /\ call_fn = "build_config"
       /\ Cardinality(SetKeys(call_arg)) < MaxVars
       /\ \E key \in LaterKeys(call_arg) : \E text \in VarTexts(key) : SetVar(key, text)

SpecEnv == InitDefault /\ [][NextEnv]_vars

----------------------------------------------------------------------------
(* Environment file: load_env_file *)

\* Largest number of lines of a .env file.
MaxFileLines == 2

\* os.environ: a function from the names that are set to their texts

\* an assignment that replaces the value a variable has
SetAlways(environ, key, value) == (key :> value) @@ environ

\* os.environ.setdefault(key, value)
setdefault(environ, key, value) ==
    IF key \in DOMAIN environ THEN environ ELSE (key :> value) @@ environ

\* _strip_inline_comment_unquoted, for texts without a backslash
_strip_inline_comment_unquoted(value) ==
    LET marks == {i \in DOMAIN value : value[i] = "#" /\ (i = 1 \/ value[i - 1] = " ")}
    IN IF marks = {} THEN RStrip(value)
       ELSE RStrip(SubSeq(value, 1, (CHOOSE i \in marks : \A j \in marks : i <= j) - 1))

RECURSIVE QuotedValue(_, _, _)
\* the loop of _parse_env_value over the lines of a quoted value: the text up
\* to the closing quote and the last line read (texts without a backslash)
QuotedValue(buffer, lines, idx) ==
    IF IndexOf(buffer, "\"") > 0
    THEN [value |-> SubSeq(buffer, 1, IndexOf(buffer, "\"") - 1), idx |-> idx]
    ELSE IF idx + 1 > Len(lines) THEN [value |-> buffer, idx |-> idx]
    ELSE QuotedValue(buffer \o <<"nl">> \o lines[idx + 1], lines, idx + 1)

\* _parse_env_value
_parse_env_value(value_part, lines, start_idx) ==
    IF LStrip(value_part) = <<>> THEN [value |-> <<>>, idx |-> start_idx]
    ELSE IF Head(LStrip(value_part)) # "\""
         THEN [value |-> Strip(_strip_inline_comment_unquoted(LStrip(value_part))),
               idx |-> start_idx]
    ELSE QuotedValue(Tail(LStrip(value_part)), lines, start_idx)

\* one turn of the loop of load_env_file at line idx: whether the line defines
\* a variable, its key and value, and the last line the turn read
ParseLine(lines, idx) ==
    LET stripped == Strip(lines[idx])
        raw == IF Len(stripped) >= 2 /\ stripped[1] = "export" /\ stripped[2] = " "
               THEN Strip(SubSeq(stripped, 3, Len(stripped))) ELSE stripped
        at == IndexOf(raw, "=")
        key == Strip(SubSeq(raw, 1, at - 1))
        parsed == _parse_env_value(SubSeq(raw, at + 1, Len(raw)), lines, idx)
        skipped == [defined |-> FALSE, key |-> <<>>, value |-> <<>>, idx |-> idx]
    IN IF stripped = <<>> \/ Head(stripped) = "#" THEN skipped
       ELSE IF at = 0 THEN skipped
       ELSE IF key = <<>> THEN skipped
       ELSE [defined |-> TRUE, key |-> key, value |-> parsed.value, idx |-> parsed.idx]

RECURSIVE LoadLines(_, _, _)
\* the loop of load_env_file from line idx on
LoadLines(lines, idx, environ) ==
    IF idx > Len(lines) THEN environ
    ELSE IF ~ParseLine(lines, idx).defined THEN LoadLines(lines, idx + 1, environ)
    ELSE LoadLines(lines, ParseLine(lines, idx).idx + 1,
                   setdefault(environ, ParseLine(lines, idx).key, ParseLine(lines, idx).value))

\* load_env_file(path) for a file of these lines; file = <<>> when the file
\* does not exist or cannot be read
load_env_file(file, environ) ==
    IF file = <<>> THEN environ ELSE LoadLines(file[1], 1, environ)

\* the lines a file is made of
FileLines ==
    { <<>>,
      <<"#", " ", "A", "=", "1">>,
      <<"A">>,
      <<"=", "1">>,
      <<"A", "=">>,
      <<"A", "=", "1">>,
      <<"A", "=", "2", " ", "#", "c">>,
      <<"export", " ", "A", "=", "3">>,
      <<" ", "B", " ", "=", " ", "1", " ">>,
      <<"B", "=", "\"", "2", " ", "#", "\"", "x">>,
      <<"B", "=", "\"", "3">>,
      <<"D", "=", "1", "#", "c">> }

\* the environments the process starts in: C is set, A and B may be
Environs ==
    { (<<"C">> :> <<"0">>) @@ [key \in keys |-> <<"0">>] : keys \in SUBSET {<<"A">>, <<"B">>} }

LoadArg(file, environ) == [file |-> file, environ |-> environ]

LoadEnvCall(file, environ) ==
    /\ call_fn' = "load_env_file"
    /\ call_arg' = LoadArg(file, environ)
    /\ call_ret' = load_env_file(file, environ)
    /\ UNCHANGED <<cfg, procVars, searchVars, httpVars, fetchVars, browserVars>>

\* load_env_file of a path without a file
LoadMissing(environ) ==
    /\ call_fn = ""
    /\ LoadEnvCall(<<>>, environ)

\* load_env_file of an empty file
LoadEmpty ==
    /\ call_fn = "load_env_file"
    /\ call_arg.file = <<>>
    /\ LoadEnvCall(<< <<>> >>, call_arg.environ)

\* load_env_file of the file of before with one more line, in the same
\* environment
LoadLonger(line) ==
    /\ call_fn = "load_env_file"
    /\ call_arg.file # <<>>
    /\ Len(call_arg.file[1]) < MaxFileLines
    /\ LoadEnvCall(<<Append(call_arg.file[1], line)>>, call_arg.environ)

NextLoad ==
    \/ \E environ \in Environs : LoadMissing(environ)
    \/ LoadEmpty
    \/ \E line \in FileLines : LoadLonger(line)

SpecLoad == InitDefault /\ [][NextLoad]_vars

----------------------------------------------------------------------------
(* Configuration: init_runtime, setup_logging, get_config and the reset hook *)

\* Largest number of init_runtime calls completed between two resets.
MaxInits == 2

\* Largest number of handlers other code attaches to the root logger.
MaxForeign == 1

\* a handler of the root logger: marked stands for _websearch_handler
Handler(marked, level) == [marked |-> marked, level |-> level]

\* the level_name arguments tried
LevelNames == {"info", "DEBUG", "verbose"}

\* getattr(logging, level_name.upper(), logging.INFO)
LevelOf(level_name) ==
    CASE level_name = "DEBUG" -> "DEBUG"
      [] level_name = "info" -> "INFO"
      [] OTHER -> "INFO"

\* a search that finds no handler of this system
ExistingNone(handlers) == <<>>

\* [h for h in root.handlers if getattr(h, "_websearch_handler", False)]
ExistingMarked(handlers) == SelectSeq(handlers, LAMBDA h : h.marked)

\* setup_logging(level_name): the handlers of the root logger and _LOGGING_READY
\* after the call
setup_logging(ready, handlers, level_name) ==
    LET level == LevelOf(level_name)
        attached == IF ~ready THEN <<Handler(TRUE, "NOTSET")>>
                    ELSE IF ExistingMarked(handlers) = <<>>
                         THEN Append(handlers, Handler(TRUE, "NOTSET"))
                    ELSE handlers
    IN [ ready |-> TRUE,
         handlers |-> [i \in DOMAIN attached |->
                          IF attached[i].marked THEN Handler(TRUE, level) ELSE attached[i]] ]

\* a get_config that falls back to the default configuration
get_config_or_default(runtime_config) ==
    IF runtime_config = <<>>
    THEN Return(build_config(Environment("", "", EnvUnset, EnvUnset, <<>>, EnvUnset, <<>>)))
    ELSE Return(runtime_config[1])

\* get_config
get_config(runtime_config) ==
    IF runtime_config = <<>> THEN Raise("RuntimeError") ELSE Return(runtime_config[1])

\* a parser exit that also drops the configuration
ClearedOnParserExit(runtime_config) == <<>>

\* _RUNTIME_CONFIG when build_config raised: the assignment is not reached
AfterParserExit(runtime_config) == runtime_config

\* a reset that detaches every handler
KeptNone(handlers) == <<>>

\* [h for h in root.handlers if not getattr(h, "_websearch_handler", False)]
KeptOnReset(handlers) == SelectSeq(handlers, LAMBDA h : ~h.marked)

\* the config function called last and how it ended
Called(fn, out) == [fn |-> fn, out |-> out]

\* init_runtime in an environment and with the LOG_LEVEL it holds
CallInitRuntime(env, level_name) ==
    LET logging == setup_logging(_LOGGING_READY, root_handlers, level_name)
    IN
    /\ completed_inits < MaxInits
    /\ _LOGGING_READY' = logging.ready
    /\ root_handlers' = logging.handlers
    /\ _RUNTIME_CONFIG' = <<build_config(env)>>
    /\ completed_inits' = completed_inits + 1
    /\ runtime_ret' = Called("init_runtime", Return(build_config(env)))
    /\ UNCHANGED <<cfg, searchVars, httpVars, fetchVars, browserVars, libVars, noiseVars>>

\* init_runtime(argv) with arguments build_config rejects: the parser exits
\* before setup_logging and the assignment of _RUNTIME_CONFIG
CallInitRuntimeRejected ==
    /\ runtime_ret' = Called("init_runtime", Raise("SystemExit"))
    /\ _RUNTIME_CONFIG' = AfterParserExit(_RUNTIME_CONFIG)
    /\ UNCHANGED <<cfg, searchVars, httpVars, fetchVars, browserVars, libVars, noiseVars,
                   _LOGGING_READY, root_handlers, completed_inits>>

CallSetupLogging(level_name) ==
    LET logging == setup_logging(_LOGGING_READY, root_handlers, level_name)
    IN
    /\ _LOGGING_READY' = logging.ready
    /\ root_handlers' = logging.handlers
    /\ runtime_ret' = Called("setup_logging", Return(<<>>))
    /\ UNCHANGED <<cfg, searchVars, httpVars, fetchVars, browserVars, libVars, noiseVars,
                   _RUNTIME_CONFIG, completed_inits>>

CallGetConfig ==
    /\ runtime_ret' = Called("get_config", get_config(_RUNTIME_CONFIG))
    /\ UNCHANGED <<cfg, searchVars, httpVars, fetchVars, browserVars, libVars, noiseVars,
                   _RUNTIME_CONFIG, _LOGGING_READY, root_handlers, completed_inits>>

\* _reset_runtime_for_tests
CallResetRuntime ==
    /\ _RUNTIME_CONFIG' = <<>>
    /\ _LOGGING_READY' = FALSE
    /\ root_handlers' = KeptOnReset(root_handlers)
    /\ completed_inits' = 0
    /\ runtime_ret' = Called("_reset_runtime_for_tests", Return(<<>>))
    /\ UNCHANGED <<cfg, searchVars, httpVars, fetchVars, browserVars, libVars, noiseVars>>

\* other code (a test runner, a library) attaches a handler of its own
AddForeignHandler ==
    /\ Len(SelectSeq(root_handlers, LAMBDA h : ~h.marked)) < MaxForeign
    /\ root_handlers' = Append(root_handlers, Handler(FALSE, "NOTSET"))
    /\ UNCHANGED <<cfg, searchVars, httpVars, fetchVars, browserVars, libVars, noiseVars,
                   _RUNTIME_CONFIG, _LOGGING_READY, runtime_ret, completed_inits>>

NextRuntime ==
    \/ \E env \in Environments, level_name \in LevelNames : CallInitRuntime(env, level_name)
    \/ CallInitRuntimeRejected
    \/ \E level_name \in LevelNames : CallSetupLogging(level_name)
    \/ CallGetConfig
    \/ CallResetRuntime
    \/ AddForeignHandler

SpecRuntime == InitDefault /\ [][NextRuntime]_vars

----------------------------------------------------------------------------
(* Length cap: limit_content_length applied to documents of every length *)

\* Largest MAX_TOKEN_LIMIT of the environments of this specification.
MaxTokenLimit == 2

\* Largest number of characters of a document.
MaxContentLen == 12

ContentChars == {"a", "b"}

InitLimit ==
    /\ cfg \in { build_config(Environment("", "", EnvUnset, EnvUnset, <<>>, EnvInt(n), <<>>)) :
                    n \in 0..MaxTokenLimit }
    /\ InitSearch
    /\ InitHttp
    /\ InitFetch
    /\ InitBrowser
    /\ InitLib
    /\ InitProc

\* limit_content_length(content) for the document of the last call with one
\* more character
LimitContentLength(ch) ==
    LET content == IF call_fn = "" THEN <<>> ELSE Append(call_arg, ch)
    IN
    /\ Len(call_arg) < MaxContentLen
    /\ cfg.max_token_limit <= MaxTokenLimit
    /\ call_fn' = "limit_content_length"
    /\ call_arg' = content
    /\ call_ret' = limit_content_length(cfg, content)
    /\ UNCHANGED <<cfg, procVars, searchVars, httpVars, fetchVars, browserVars>>

NextLimit == \E ch \in ContentChars : LimitContentLength(ch)

SpecLimit == InitLimit /\ [][NextLimit]_vars

----------------------------------------------------------------------------
(* Properties of web_search *)

Returned == pc = "done"

\* the links a finished task handed to web_search
PriorityOut == IF ai_task.state = "returned" THEN ai_task.value.priority_links ELSE <<>>

OtherOut == IF ai_task.state = "returned" THEN ai_task.value.ai_links_others ELSE <<>>

BrowserOut == IF browser_task.state = "returned" THEN browser_task.results ELSE <<>>

\* the merged list as section 4.10 states it
StatedMerge ==
    IF is_site_query(query)
    THEN PriorityOut \o BrowserOut \o OtherOut
    ELSE PriorityOut \o OtherOut \o BrowserOut

\* an entry of the merged list as it is emitted: its title, its URL unwrapped
Emitted(entry) == Link(entry.title, unwrap_redirect_url(entry.url))

EmittedSeq(entries) == [i \in 1..Len(entries) |-> Emitted(entries[i])]

\* the dedup key of an entry of the merged list
EntryKey(entry) == normalize_url_for_dedup(unwrap_redirect_url(entry.url))

HostCount(links, host) == Cardinality({i \in 1..Len(links) : get_hostname(links[i].url) = host})

HostsOf(links) == {get_hostname(links[i].url) : i \in 1..Len(links)}

\* C1 as stated: for a query that is no site query, no hostname occurs in the
\* returned links more than search_max_per_domain times, for every accepted
\* SEARCH_MAX_PER_DOMAIN >= 0.
C1_DomainCapAnyConfig ==
    (Returned /\ ~is_site_query(query)) =>
        \A h \in HostsOf(result.links) :
            HostCount(result.links, h) <= cfg.search_max_per_domain

\* C1 amended: for a query that is no site query and search_max_per_domain >= 1,
\* no hostname occurs in the returned links more than search_max_per_domain times.
C1_DomainCap ==
    (Returned /\ ~is_site_query(query) /\ cfg.search_max_per_domain >= 1) =>
        \A h \in HostsOf(result.links) :
            HostCount(result.links, h) <= cfg.search_max_per_domain

\* the cap has dropped a second page of a.com and the next host was still kept
C1_Witness ==
    /\ Returned /\ ~is_site_query(query)
    /\ cfg.search_max_per_domain = 1
    /\ HostCount(StatedMerge, "a.com") >= 2
    /\ \E i, j \in 1..Len(StatedMerge) :
          /\ get_hostname(StatedMerge[i].url) = "a.com"
          /\ get_hostname(StatedMerge[j].url) = "a.com"
          /\ EntryKey(StatedMerge[i]) # EntryKey(StatedMerge[j])
    /\ HostCount(result.links, "a.com") = 1
    /\ HostCount(result.links, "b.com") = 1

\* C2: no two returned links have the same dedup key, and a returned link is the
\* first entry of the merged list that has its key.
C2_UniqueFirstSeen ==
    Returned =>
        /\ \A i, j \in 1..Len(result.links) :
              i # j => normalize_url_for_dedup(result.links[i].url)
                          # normalize_url_for_dedup(result.links[j].url)
        /\ \A i \in 1..Len(result.links) :
              \E j \in 1..Len(StatedMerge) :
                  /\ result.links[i] = Emitted(StatedMerge[j])
                  /\ \A k \in 1..(j - 1) : EntryKey(StatedMerge[k]) # EntryKey(StatedMerge[j])

\* two entries with one key and different URLs were merged and the first is returned
C2_Witness ==
    /\ Returned
    /\ \E j, k \in 1..Len(StatedMerge) :
          /\ j < k
          /\ EntryKey(StatedMerge[j]) = EntryKey(StatedMerge[k])
          /\ Emitted(StatedMerge[j]).url # Emitted(StatedMerge[k]).url
          /\ \A m \in 1..(j - 1) : EntryKey(StatedMerge[m]) # EntryKey(StatedMerge[j])
          /\ \E i \in 1..Len(result.links) : result.links[i] = Emitted(StatedMerge[j])

\* C3: the number of returned links is at most search_result_limit.
C3_ResultLimit == Returned => Len(result.links) <= cfg.search_result_limit

\* three links with three keys were delivered and the limit of two cut the list
C3_Witness ==
    /\ Returned
    /\ cfg.search_result_limit = 2
    /\ Cardinality({EntryKey(StatedMerge[i]) : i \in 1..Len(StatedMerge)}) = 3
    /\ cfg.search_max_per_domain = 0
    /\ Len(result.links) = 2

IsPriority(link) == \E i \in 1..Len(PriorityOut) : link = Emitted(PriorityOut[i])

\* C4: the returned links are an order-preserving subsequence of the merged list
\* (priority ++ browser ++ other for a site query, priority ++ other ++ browser
\* otherwise), and every kept priority link precedes every other kept link.
C4_MergeOrder ==
    Returned =>
        /\ IsSubseq(result.links, EmittedSeq(StatedMerge))
        /\ \A i, j \in 1..Len(result.links) :
              (i < j /\ IsPriority(result.links[j])) => IsPriority(result.links[i])

\* a site query returned a priority link, then a scraped link, then another AI link
C4_Witness ==
    /\ Returned /\ is_site_query(query)
    /\ Len(result.links) = 3
    /\ IsPriority(result.links[1])
    /\ BrowserOut # <<>> /\ OtherOut # <<>>
    /\ result.links[2] = Emitted(BrowserOut[1])
    /\ result.links[3] = Emitted(OtherOut[1])

\* C5: web_search returns success=true whatever fails; no failure of the LLM, of
\* Brave or of DuckDuckGo reaches the caller as an exception.
C5_AlwaysSuccess ==
    /\ pc # "raised"
    /\ Returned => result.success

\* without LLM credentials, both scrapers failed and the call returned
C5_WitnessNoLlm ==
    /\ Returned /\ ~use_ai
    /\ trace.brave_out = "threw" /\ trace.ddg_out = "threw"
    /\ result.success /\ result.links = <<>>

\* C9: DuckDuckGo is called iff Brave threw or returned nothing, and after Brave;
\* fallback_used, brave_error and backend report exactly that.
C9_Fallback ==
    /\ trace.brave <= 1 /\ trace.ddg <= 1
    /\ trace.ddg = 1 => trace.brave = 1
    /\ browser_task.state = "ddg" => trace.brave_out \in {"threw", "empty"}
    /\ browser_task.state = "returned" =>
          LET d == browser_task.diagnostics IN
          /\ trace.ddg = 1 <=> trace.brave_out \in {"threw", "empty"}
          /\ d.fallback_used <=> trace.ddg = 1
          /\ trace.brave_out = "threw" => d.brave_error = <<trace.brave_exc>>
          /\ trace.brave_out # "threw" => d.brave_error = Absent
          /\ d.backend = "brave" <=> trace.brave_out = "links"
          /\ d.backend = "ddg" <=> (trace.ddg = 1 /\ trace.ddg_out = "links")
          /\ d.backend \in {"brave", "ddg", "none"}
    /\ Returned => /\ result.diagnostics.browser = browser_task.diagnostics
                   /\ result.diagnostics.search_backend = browser_task.diagnostics.backend

\* Brave threw, DuckDuckGo delivered a link, and the result says so
C9_Witness ==
    /\ Returned
    /\ trace.brave_out = "threw" /\ trace.ddg_out = "links"
    /\ result.diagnostics.search_backend = "ddg"
    /\ result.diagnostics.browser.fallback_used
    /\ result.diagnostics.browser.brave_error = <<"boom">>
    /\ Len(result.links) >= 1

KeysOf(entries) == {EntryKey(entries[i]) : i \in 1..Len(entries)}

\* neither the limit nor the domain cap can drop a link of this call
Uncut ==
    /\ Len(StatedMerge) < cfg.search_result_limit
    /\ (cfg.search_max_per_domain = 0 \/ is_site_query(query))

\* C10: with the LLM configured both tasks have run to completion when web_search
\* returns, whichever of them failed, and the links of the task that did not
\* fail are in the result.
C10_BothComplete ==
    (pc \in {"done", "raised"} /\ use_ai) =>
        /\ Finished(ai_task) /\ Finished(browser_task)
        /\ trace.llm = 1 /\ trace.brave = 1
        /\ pc = "done"
        /\ trace.llm_out = "threw" =>
              /\ result.ai_error # ""
              /\ BrowserOut # <<>> => result.links[1] = Emitted(BrowserOut[1])
              /\ Uncut => KeysOf(BrowserOut) = KeysOf(result.links)
        /\ (trace.brave_out = "threw" /\ trace.ddg_out = "threw") =>
              /\ PriorityOut \o OtherOut # <<>> =>
                    result.links[1] = Emitted((PriorityOut \o OtherOut)[1])
              /\ Uncut => KeysOf(PriorityOut \o OtherOut) = KeysOf(result.links)

\* the LLM request failed and the links of the scrapers were returned
C10_WitnessAiFailed ==
    /\ Returned /\ use_ai
    /\ trace.llm_out = "threw"
    /\ trace.brave_out = "empty" /\ trace.ddg_out = "links"
    /\ Len(result.links) >= 2

\* the result section 4.10 states for the outcomes of the two tasks; the order
\* in which the tasks finished is no part of it
StatedDiagnostics ==
    IF browser_task.state = "returned" THEN browser_task.diagnostics
    ELSE [InitialDiagnostics EXCEPT !.browser_error = <<browser_task.exc>>]

StatedLinks ==
    LimitLoop(UniqueLoop(StatedMerge, {}), <<>>, <<>>, cfg.search_result_limit,
              EffectiveMaxPerDomain(cfg, is_site_query(query)))

\* C11: for given outcomes of the AI task and of the browser-search task the
\* result of web_search (links in order, ai_summary, ai_error, diagnostics) is
\* the one the merge rules give for these outcomes, whichever task finished first.
C11_InterleavingIndependent ==
    (Returned /\ use_ai) =>
        /\ result.links = StatedLinks
        /\ result.ai_summary = ai_task.value.summary
        /\ result.ai_error = ai_task.value.ai_error
        /\ result.diagnostics.browser = StatedDiagnostics
        /\ result.diagnostics.search_backend = StatedDiagnostics.backend

\* the browser task finished before the AI task, both delivered links, and an
\* AI link is returned ahead of a browser link
C11_Witness ==
    /\ Returned /\ use_ai /\ ~is_site_query(query)
    /\ trace.first = "browser"
    /\ OtherOut # <<>> /\ BrowserOut # <<>>
    /\ Len(result.links) >= 2
    /\ result.links[1] = Emitted(OtherOut[1])
    /\ \E i \in 2..Len(result.links) : result.links[i] = Emitted(BrowserOut[1])

\* the schemes of the strings that begin with the letters "http"
SchemesInHttp == {"http", "https", "httpx"}

\* C21 as stated: every url web_search returns starts with "http://" or
\* "https://"; a string that merely begins with the letters "http" is not returned
C21_LinksAreHttpUrls ==
    Returned =>
        \A i \in 1..Len(result.links) : result.links[i].url.scheme \in {"http", "https"}

\* C21: every url web_search returns begins with the letters "http"; a string
\* such as "httpx://c.com/x" is returned as it was delivered
C21_LinksBeginWithHttp ==
    Returned =>
        \A i \in 1..Len(result.links) : result.links[i].url.scheme \in SchemesInHttp

\* a search returned "httpx://c.com/x"
C21_Witness ==
    /\ Returned
    /\ \E i \in 1..Len(result.links) : result.links[i].url = UrlHttpx

\* C22 as stated: without LLM credentials web_search issues no LLM request and
\* its result reports ai_error = "llm_not_configured"
C22_NotConfiguredReported ==
    Returned /\ ~llm_configured(cfg) =>
        /\ trace.llm = 0
        /\ result.ai_error = "llm_not_configured"

\* C22: without LLM credentials web_search creates no AI task and issues no LLM
\* request; its result has an empty ai_error and ai_summary and
\* diagnostics.llm_enabled = false
C22_NotConfiguredSilent ==
    Returned /\ ~llm_configured(cfg) =>
        /\ trace.llm = 0
        /\ ai_task = NoTask
        /\ result.ai_error = ""
        /\ result.ai_summary = ""
        /\ ~result.diagnostics.llm_enabled

\* a search without LLM credentials returned the links of Brave
C22_Witness ==
    /\ Returned /\ ~llm_configured(cfg)
    /\ trace.brave_out = "links"
    /\ result.links # <<>>

\* the error strings of diagnostics.browser
BrowserErrors(d) == {e \in {d.brave_error, d.browser_error} : e # Absent /\ e # <<"">>}

\* C23 as stated: every failure during a web_search leaves a non-empty error
\* string in the result: a failed AI task in ai_error, a Brave failure and a
\* DuckDuckGo failure in diagnostics.browser
C23_EveryFailureReported ==
    Returned =>
        /\ trace.llm_out = "threw" => result.ai_error # ""
        /\ trace.brave_out = "threw" => BrowserErrors(result.diagnostics.browser) # {}
        /\ trace.ddg_out = "threw" => BrowserErrors(result.diagnostics.browser) # {}

\* C23: a failed LLM request leaves its message in ai_error and a failed Brave
\* request leaves its message in diagnostics.browser.brave_error; a failed
\* DuckDuckGo request leaves no error string: diagnostics.browser then reads as
\* for an empty DuckDuckGo page (fallback_used, ddg_results = 0, no browser_error)
C23_FailuresButDdgReported ==
    Returned =>
        LET d == result.diagnostics.browser IN
        /\ trace.llm_out = "threw" => result.ai_error = "boom"
        /\ trace.brave_out = "threw" => d.brave_error = <<trace.brave_exc>>
        /\ trace.ddg_out = "threw" =>
              /\ d.browser_error = Absent
              /\ d.fallback_used /\ d.ddg_results = 0
              /\ d.backend = "none"
              /\ trace.brave_out = "empty" => BrowserErrors(d) = {}

\* Brave delivered an empty page, DuckDuckGo failed, and the result carries no
\* error string
C23_Witness ==
    /\ Returned
    /\ trace.brave_out = "empty" /\ trace.ddg_out = "threw"
    /\ BrowserErrors(result.diagnostics.browser) = {}
    /\ result.ai_error = ""

----------------------------------------------------------------------------
(* Properties of _curl_get_with_retries *)

\* retryable as section 4.2 states it: curl code 18, 23 or 28, or a hint in the message
StatedRetryable(e) == (e.code # <<>> /\ e.code[1] \in {18, 23, 28}) \/ e.hint # ""

Failed(o) == ~o.ok \/ o.status >= 400

\* the error the caller sees for a failed attempt
ErrorOf(o) == IF o.ok THEN CurlError(<<>>, "", o.status) ELSE o.error

StatedMaxAttempts == IF retries > 1 THEN retries ELSE 1

\* C6: get(url, retries=r) makes at most max(1, r) attempts, one after the other;
\* a retryable failure with attempts left is followed by another attempt, and
\* the response of the first successful attempt is returned.
C6_RetryBound ==
    /\ Len(http_log) <= StatedMaxAttempts
    /\ http_pc \in {"get", "sleep"} => attempt <= StatedMaxAttempts
    /\ http_pc = "get" => Len(http_log) = attempt - 1
    /\ \A i \in 1..(Len(http_log) - 1) : Failed(http_log[i])
    /\ (/\ http_log # <<>>
        /\ Failed(http_log[Len(http_log)])
        /\ StatedRetryable(ErrorOf(http_log[Len(http_log)]))
        /\ Len(http_log) < StatedMaxAttempts)
          => http_pc \in {"sleep", "get"}
    /\ (http_log # <<>> /\ ~Failed(http_log[Len(http_log)]))
          => (http_pc = "returned" /\ http_out = http_log[Len(http_log)])
    /\ http_pc = "returned" => ~Failed(http_log[Len(http_log)])

\* a chunked-stream failure followed by a success: that response after exactly 2 calls
C6_Witness ==
    /\ http_pc = "returned"
    /\ retries = 2
    /\ Len(http_log) = 2
    /\ http_log[1].error = CurlError(<<23>>, "Failed reading the chunked-encoded stream", 0)
    /\ http_out = [ok |-> TRUE, status |-> 200, error |-> NoError]

\* C7: an attempt is followed by another only if its error is retryable; any
\* other failure is raised on that attempt, whatever the value of retries.
C7_NonRetryableSurfaces ==
    /\ \A i \in 1..(Len(http_log) - 1) :
          Failed(http_log[i]) /\ StatedRetryable(ErrorOf(http_log[i]))
    /\ (/\ http_log # <<>>
        /\ Failed(http_log[Len(http_log)])
        /\ ~StatedRetryable(ErrorOf(http_log[Len(http_log)])))
          => (http_pc = "raised" /\ http_out.error = ErrorOf(http_log[Len(http_log)]))

\* with retries = 3, a status 500 on the first attempt is raised after one call
C7_Witness ==
    /\ http_pc = "raised"
    /\ retries = 3
    /\ Len(http_log) = 1
    /\ http_log[1].ok /\ http_log[1].status = 500
    /\ http_out.error = CurlError(<<>>, "", 500)

----------------------------------------------------------------------------
(* Properties of fetch and _fetch_with_playwright *)

ContentKeys ==
    {"markdown", "text", "html", "title", "description", "canonical_url", "links"}

\* the content field(s) of a mode
ModeContent(mode) ==
    CASE mode = "markdown" -> {"markdown"}
      [] mode = "text" -> {"text"}
      [] mode = "html" -> {"html"}
      [] mode \in {"meta", "metadata"} -> {"title", "description", "canonical_url", "links"}
      [] OTHER -> {}

ErrorStrings ==
    {"boom", "Playwright fallback disabled", "Playwright not available: boom",
     "Unsupported mode: pdf"}

FetchResultShape(r, mode) ==
    /\ "success" \in DOMAIN r
    /\ r.success \in BOOLEAN
    /\ r.success =>
          /\ ModeContent(mode) # {}
          /\ ModeContent(mode) \subseteq DOMAIN r
          /\ "error" \notin DOMAIN r
    /\ ~r.success =>
          /\ "error" \in DOMAIN r
          /\ r.error \in ErrorStrings
          /\ DOMAIN r \cap ContentKeys = {}

\* C8: every dict returned by fetch (markdown mode) and by _fetch_with_playwright
\* (the mode of the call) has success=true with the content field(s) of the mode
\* and no error field, or success=false with an error string and no content field.
C8_FetchResultShape ==
    fetch_pc = "done" => FetchResultShape(fetch_ret[1], fetch_mode)

\* fetch returned the HTTP result after a failed browser retry: success=true and
\* the markdown, next to the playwright_error it added
C8_Witness ==
    /\ fetch_pc = "done"
    /\ fetch_entry = "fetch"
    /\ fetch_ret[1].success
    /\ "playwright_error" \in DOMAIN fetch_ret[1]

\* fetch has returned
FetchReturned == fetch_pc = "done" /\ fetch_entry = "fetch"

\* ret is the dict local with blocked=true and the playwright_error added
Augmented(ret, local, error) ==
    /\ DOMAIN ret = DOMAIN local \cup {"blocked", "playwright_error"}
    /\ \A k \in DOMAIN local \ {"blocked", "playwright_error"} : ret[k] = local[k]
    /\ ret["blocked"] = TRUE
    /\ ret["playwright_error"] = error

\* C12: a successful result of fetch._fetch whose markdown looks blocked is,
\* with the browser enabled, never returned without a browser fetch; when that
\* fetch succeeds its result is returned, otherwise the first result is returned
\* with success=true and its markdown, blocked=true and a playwright_error.
C12_BlockedMarkdownRetry ==
    /\ (FetchReturned /\ pw_result = <<>> /\ fetch_ret[1].success
            /\ looks_like_blocked_text(fetch_ret[1].markdown))
          => ~cfg.playwright_fallback
    /\ (FetchReturned /\ fetch_why = "blocked") =>
          /\ cfg.playwright_fallback
          /\ pw_result # <<>>
          /\ pw_result[1].success => fetch_ret[1] = pw_result[1]
          /\ ~pw_result[1].success =>
                /\ fetch_ret[1].success
                /\ fetch_ret[1].markdown = fetch_result[1].markdown
                /\ Augmented(fetch_ret[1], fetch_result[1], pw_result[1].error)

\* the plain GET gave blocked-looking markdown, the browser failed, and the
\* first result came back with the playwright_error
C12_Witness ==
    /\ FetchReturned /\ fetch_why = "blocked"
    /\ fetch_result[1].status_code = 200
    /\ ~pw_result[1].success
    /\ fetch_ret[1].playwright_error = "boom"

\* fetch awaited the browser fetch and that fetch was not successful
BrowserFailed == FetchReturned /\ pw_result # <<>> /\ ~pw_result[1].success

\* C13 as stated: whichever way fetch reached the browser (preferred-browser
\* host, blocked body, transport exception, blocked-looking markdown), a failed
\* browser fetch makes fetch return the pre-browser result with blocked=true and
\* playwright_error.
C13_FailureAugmentsOriginal ==
    BrowserFailed =>
        /\ fetch_result # <<>>
        /\ Augmented(fetch_ret[1], fetch_result[1], pw_result[1].error)

\* C13 amended: after a failed browser fetch, fetch returns the pre-browser
\* result with blocked=true and playwright_error only when the browser was tried
\* for blocked-looking markdown; after a stub (preferred-browser host, blocked
\* body) or a transport exception it returns the failure dict of the browser
\* fetch itself, which has an error and no playwright_error.
C13_FailureByRoute ==
    BrowserFailed =>
        /\ fetch_why = "blocked" =>
              Augmented(fetch_ret[1], fetch_result[1], pw_result[1].error)
        /\ fetch_why \in {"exception", "needs_playwright"} =>
              /\ fetch_ret[1] = pw_result[1]
              /\ ~fetch_ret[1].success
              /\ "error" \in DOMAIN fetch_ret[1]
              /\ "playwright_error" \notin DOMAIN fetch_ret[1]

\* a blocked body made the stub, the browser failed, and the failure dict of
\* the browser fetch was returned in place of the stub
C13_Witness ==
    /\ BrowserFailed
    /\ fetch_why = "needs_playwright"
    /\ "status_code" \in DOMAIN fetch_result[1]
    /\ fetch_ret[1].error = "boom"
    /\ "needs_playwright" \notin DOMAIN fetch_ret[1]

\* the address is the Worker's, with some URL in its url parameter
AddressedToWorker(target) ==
    /\ target.host = cfg.cf_worker_url[1].host
    /\ Len(target.query) = 1
    /\ target.query[1].k = "url"
    /\ target.query[1].u # <<>>

\* the requests of the current call that the HTTP client issued
HttpRequests == {i \in DOMAIN fetch_log : fetch_log[i].stage # "playwright"}

\* C15 as stated: with cf_worker_url configured, every GET issued for a fetch or
\* for a search is addressed to the Worker, also after a failed Worker attempt.
C15_EveryGetViaWorker ==
    cfg.cf_worker_url # <<>> =>
        \A i \in HttpRequests : AddressedToWorker(fetch_log[i].target)

\* C15 amended: with cf_worker_url configured, every GET of the HTTP client is
\* addressed to the Worker with the target in its url parameter, except one:
\* the Zhihu adapter, after its attempt through the Worker, requests the same
\* API address directly. The headless browser navigates to the page itself.
C15_ViaWorkerButZhihuRetry ==
    cfg.cf_worker_url # <<>> =>
        \A i \in DOMAIN fetch_log :
            LET r == fetch_log[i]
            IN IF r.stage = "playwright" THEN r.target = fetch_url
               ELSE \/ /\ AddressedToWorker(r.target)
                       /\ r.target.query[1].u[1].host # cfg.cf_worker_url[1].host
                    \/ /\ r.stage = "zhihu"
                       /\ i = 2
                       /\ fetch_log[1] = Request("zhihu", get_target_url(cfg, r.target))

\* a Worker is configured and the Zhihu adapter asked the API directly after
\* its attempt through the Worker
C15_Witness ==
    /\ cfg.cf_worker_url # <<>>
    /\ Len(fetch_log) >= 2
    /\ fetch_log[1].stage = "zhihu" /\ AddressedToWorker(fetch_log[1].target)
    /\ fetch_log[2].stage = "zhihu" /\ fetch_log[2].target.host = "www.zhihu.com"

----------------------------------------------------------------------------
(* Properties of _fetch_with_playwright *)

PlaywrightReturned == pw_pc = "done"

\* C14: when _fetch_with_playwright has returned, close() has been awaited on
\* the browser if one was launched and on the context if one was created,
\* whichever way the call ended: the normal return, the early return when the
\* page content cannot be read, or an exception from new_context, navigation,
\* polling, extraction or context.close() itself.
C14_BrowserAndContextClosed ==
    PlaywrightReturned =>
        /\ browser # "open"
        /\ context # "open"
        /\ context # "none" => browser # "none"

\* context.close() raised after a result had been built: browser.close() was
\* still awaited, and the caller got the error instead of the result
C14_Witness ==
    /\ PlaywrightReturned
    /\ context = "close_raised"
    /\ browser = "closed"
    /\ pw_html = ShortDoc
    /\ ~pw_ret[1].success

\* the early return of line 631 with both released
C14_EarlyReturnWitness ==
    /\ PlaywrightReturned
    /\ context = "closed" /\ browser = "closed"
    /\ pw_pending = <<Return(PlaywrightError(UrlA, "boom", TRUE))>>

----------------------------------------------------------------------------
(* Properties of limit_content_length *)

LimitCalled == call_fn = "limit_content_length"

\* C16 as stated: the first component has at most 4 * max_token_limit
\* characters, truncated is true exactly when the input has more than that,
\* and an untruncated input is returned as it is.
C16_CapAtFourTimesLimit ==
    LimitCalled =>
        /\ Len(call_ret[1]) <= 4 * cfg.max_token_limit
        /\ call_ret[2] <=> Len(call_arg) > 4 * cfg.max_token_limit
        /\ ~call_ret[2] => call_ret[1] = call_arg

\* C16 amended: truncated is true exactly when len(s) // 4 > max_token_limit,
\* that is from 4 * max_token_limit + 4 characters on; then the first component
\* is the first 4 * max_token_limit characters of s. Otherwise it is s itself,
\* which may have up to 4 * max_token_limit + 3 characters.
C16_CapOnWholeTokens ==
    LimitCalled =>
        /\ call_ret[2] <=> Len(call_arg) >= 4 * cfg.max_token_limit + 4
        /\ call_ret[2] => call_ret[1] = SubSeq(call_arg, 1, 4 * cfg.max_token_limit)
        /\ ~call_ret[2] => call_ret[1] = call_arg
        /\ Len(call_ret[1]) <= 4 * cfg.max_token_limit + 3

\* a document of 4 * max_token_limit + 3 characters came back whole
C16_Witness ==
    /\ LimitCalled
    /\ Len(call_arg) = 4 * cfg.max_token_limit + 3
    /\ call_ret = <<call_arg, FALSE>>

\* a document of 4 * max_token_limit + 4 characters was cut
C16_WitnessCut ==
    /\ LimitCalled
    /\ Len(call_arg) = 4 * cfg.max_token_limit + 4
    /\ call_ret[2] /\ Len(call_ret[1]) = 4 * cfg.max_token_limit

----------------------------------------------------------------------------
(* Properties of unwrap_redirect_url *)

UnwrapCalled == call_fn = "unwrap_redirect_url"

----------------------------------------------------------------------------
(* Properties of normalize_url_for_dedup *)

DedupCalled == call_fn = "normalize_url_for_dedup"

\* the tracking set as the specification writes it: utm_* and share_* stand
\* for every key with that prefix
StatedTrackingSet ==
    _TRACKING_QUERY_KEYS \cup {"utm_name", "utm_reader", "share_token", "share_type"}

C18_WitnessUnlisted ==
    /\ DedupCalled
    /\ call_arg.keys = {"utm_name"}
    /\ call_ret[1] # call_ret[2]

----------------------------------------------------------------------------
(* Properties of the noise cleaners *)

\* C19: both cleaners are idempotent: cleaning the cleaned text again changes
\* nothing, also when a heading line ends in one or more "#" and when the
\* text has fenced code blocks.
C19_CleanersIdempotent ==
    /\ call_fn = "_clean_extracted_text" => _clean_extracted_text(call_ret) = call_ret
    /\ call_fn = "_clean_extracted_markdown" => _clean_extracted_markdown(call_ret) = call_ret

\* a heading line outside code blocks that still ends in "#"
EndsInHash(lines) ==
    \E i \in 1..Len(lines) :
        /\ StartsWith(Strip(lines[i]), "#")
        /\ lines[i][Len(lines[i])] = "#"
        /\ Cardinality({j \in 1..(i - 1) : StartsWith(Strip(lines[j]), "fence")}) % 2 = 0

\* what does hold: the text cleaner is idempotent, and the markdown cleaner is
\* on every text whose cleaned form has no heading line that still ends in "#"
CleanersIdempotentButClosingHashes ==
    /\ call_fn = "_clean_extracted_text" => _clean_extracted_text(call_ret) = call_ret
    /\ call_fn = "_clean_extracted_markdown" =>
          (_clean_extracted_markdown(call_ret) = call_ret <=> ~EndsInHash(call_ret))

\* "## w ##" was cleaned to "## w #", which the cleaner turns into "## w"
ClosingHashesWitness ==
    /\ call_fn = "_clean_extracted_markdown"
    /\ call_arg = << <<"#", "#", " ", "w", " ", "#", "#">> >>
    /\ call_ret = << <<"#", "#", " ", "w", " ", "#">> >>
    /\ _clean_extracted_markdown(call_ret) = << <<"#", "#", " ", "w">> >>

----------------------------------------------------------------------------
(* Properties of _add_candidate *)

AddCalled == call_fn = "_add_candidate"

\* the cleaned form of the content handed to the last _add_candidate
LastCleaned == _clean_for_mode(call_arg.output_format, call_arg.content)

\* the candidates that were in the list before the last _add_candidate
EarlierCandidates ==
    IF call_ret.item = <<>> THEN call_ret.candidates
    ELSE SubSeq(call_ret.candidates, 1, Len(call_ret.candidates) - 1)

\* C20: within one _extract_best_content, after any sequence of _add_candidate
\* calls no two candidates of the list have equal cleaned content; a content
\* whose cleaned form is that of an earlier candidate is skipped (None is
\* returned, the list stays as it is), whichever extractor produced it.
C20_NoDuplicateCandidates ==
    AddCalled =>
        /\ \A i, j \in DOMAIN call_ret.candidates :
              i # j => call_ret.candidates[i].content # call_ret.candidates[j].content
        /\ \A i \in DOMAIN call_ret.candidates : call_ret.candidates[i].content # <<>>
        /\ (\E i \in DOMAIN EarlierCandidates : EarlierCandidates[i].content = LastCleaned)
              => call_ret.item = <<>>
        /\ call_ret.item # <<>> =>
              /\ call_ret.item[1] = call_ret.candidates[Len(call_ret.candidates)]
              /\ call_ret.item[1].content = LastCleaned

\* another extractor produced a different raw content with the cleaned form of
\* the first candidate, and it was skipped
C20_Witness ==
    /\ AddCalled
    /\ call_arg.calls = 3
    /\ Len(call_ret.candidates) = 2
    /\ call_ret.item = <<>>
    /\ call_arg.content = << <<"w">>, <<"ad">> >>
    /\ call_ret.candidates[1].content = LastCleaned
    /\ call_ret.candidates[1].extractor # call_arg.extractor

----------------------------------------------------------------------------
(* Properties of the selection of _extract_best_content *)

\* _extract_best_content has returned
Selected == call_fn = "_extract_best_content" /\ call_ret # <<>>

\* the candidates that pass the adapter threshold, by their index
AdapterPassing ==
    {i \in DOMAIN call_arg.candidates :
        /\ IsAdapter(call_arg.candidates[i].extractor)
        /\ call_arg.candidates[i].char_len >= MinChars(call_arg.output_format)
        /\ call_arg.candidates[i].quality_score
              >= _INTERNAL_TUNING(call_arg.strategy).adapter_min_quality}

\* the candidates of any kind that pass the general threshold
GeneralPassing ==
    {i \in DOMAIN call_arg.candidates :
        /\ call_arg.candidates[i].char_len >= MinChars(call_arg.output_format)
        /\ call_arg.candidates[i].quality_score
              >= _INTERNAL_TUNING(call_arg.strategy).general_min_quality}

\* (quality_score + extractor_bonus, quality_score, char_len) of candidate i
KeyOf(i) == _rank_key(call_arg.candidates[i], _INTERNAL_TUNING(call_arg.strategy))

\* the highest-ranked candidates among those of I
TopOf(I) == {i \in I : \A j \in I : ~KeyLess(KeyOf(i), KeyOf(j))}

\* the call returned a highest-ranked candidate among those of I
ReturnedTopOf(I) == \E i \in TopOf(I) : call_ret[1] = call_arg.candidates[i]

\* C24: without an early stop, the candidate returned is the highest-ranked
\* adapter candidate that meets min_chars and adapter_min_quality if there is
\* one, otherwise the highest-ranked candidate that meets min_chars and
\* general_min_quality; whenever some candidate meets its threshold the result
\* is not degraded and has content and an extractor tag, under every strategy.
C24_AdaptersFirst ==
    (Selected /\ ~call_arg.early) =>
        /\ AdapterPassing # {} => ReturnedTopOf(AdapterPassing)
        /\ (AdapterPassing = {} /\ GeneralPassing # {}) => ReturnedTopOf(GeneralPassing)
        /\ AdapterPassing \cup GeneralPassing # {} =>
              /\ ~call_ret[1].degraded
              /\ call_ret[1].content.chars > 0
              /\ call_ret[1].extractor \notin {"", "none", "meta:degraded"}

\* an adapter candidate was returned although a candidate of trafilatura that
\* meets the general threshold ranks higher
C24_Witness ==
    /\ Selected /\ ~call_arg.early
    /\ IsAdapter(call_ret[1].extractor)
    /\ \E i \in AdapterPassing, j \in GeneralPassing :
          /\ call_ret[1] = call_arg.candidates[i]
          /\ ~IsAdapter(call_arg.candidates[j].extractor)
          /\ KeyLess(KeyOf(i), KeyOf(j))

\* no candidate meets its threshold
NonePassing == AdapterPassing \cup GeneralPassing = {}

HasMeta == call_arg.page.title # <<>> \/ call_arg.page.description # <<>>

\* C25 as stated: under quality and balanced, when no candidate meets its
\* threshold the record returned has degraded = true: meta:degraded when a title
\* or a description exists, the empty record of extractor "none" otherwise; a
\* candidate that fails the thresholds is returned under speed only
C25_DegradedUnlessSpeed ==
    (Selected /\ ~call_arg.early /\ NonePassing) =>
        /\ call_arg.strategy \in {"quality", "balanced"} =>
              /\ call_ret[1].degraded
              /\ HasMeta => call_ret[1].extractor = "meta:degraded"
              /\ ~HasMeta => call_ret[1] = TerminalRecord
        /\ ~call_ret[1].degraded => call_arg.strategy = "speed"

\* C25: when no candidate meets its threshold, speed returns the highest-ranked
\* candidate if there is one; otherwise (and under quality and balanced) the
\* meta:degraded record when a title or a description exists, else the
\* highest-ranked candidate if there is one (degraded = false), else the empty
\* record of extractor "none"
C25_DegradedOrTopRanked ==
    (Selected /\ ~call_arg.early /\ NonePassing) =>
        LET some == call_arg.candidates # <<>>
            speed == call_arg.strategy = "speed"
        IN
        /\ (speed /\ some) => ReturnedTopOf(DOMAIN call_arg.candidates)
        /\ (~(speed /\ some) /\ HasMeta) =>
              /\ call_ret[1].degraded
              /\ call_ret[1].extractor = "meta:degraded"
        /\ (~speed /\ ~HasMeta /\ some) =>
              /\ ReturnedTopOf(DOMAIN call_arg.candidates)
              /\ ~call_ret[1].degraded
        /\ (~HasMeta /\ ~some) => call_ret[1] = TerminalRecord

\* under quality, a page without title and description: a candidate that
\* fails the thresholds was returned
C25_Witness ==
    /\ Selected /\ ~call_arg.early /\ NonePassing
    /\ call_arg.strategy = "quality"
    /\ ~HasMeta
    /\ Len(call_arg.candidates) = 2
    /\ call_ret[1] = call_arg.candidates[2]
    /\ ~call_ret[1].degraded

\* under balanced, the record built from the title was returned
C25_WitnessDegraded ==
    /\ Selected /\ NonePassing
    /\ call_arg.strategy = "balanced"
    /\ call_arg.candidates # <<>>
    /\ call_ret[1].extractor = "meta:degraded"
    /\ call_ret[1].content.chars > 0

----------------------------------------------------------------------------
(* Properties of _consume_sse_stream *)

SseBytes == Flatten(call_arg.lines)

\* C26 as stated: the pair _consume_sse_stream returns does not depend on the
\* chunk boundaries, two-byte characters included: it is the pair returned for
\* the stream in one chunk and the pair the line-by-line parse of the whole
\* text gives; lines behind data: [DONE] contribute nothing
C26_ChunkingIndependent ==
    (SseCalled /\ call_arg.fail = <<>>) =>
        /\ <<call_ret.content, call_ret.reasoning>>
              = _parse_sse_chat_completions(Utf8DecodeIgnore(SseBytes))
        /\ call_ret = _consume_sse_stream(ChunksOf(SseBytes, {}, 0), <<>>)

\* a chunk boundary between the two bytes of a character
SplitsCharacter ==
    \E c \in call_arg.cuts : SseBytes[c] = "c3" /\ SseBytes[c + 1] = "a9"

\* the pair is that of the whole stream whenever no boundary falls between
\* the bytes of a character
ChunkingIndependentOfWholeChars ==
    (SseCalled /\ call_arg.fail = <<>> /\ ~SplitsCharacter) =>
        /\ <<call_ret.content, call_ret.reasoning>>
              = _parse_sse_chat_completions(Utf8DecodeIgnore(SseBytes))
        /\ call_ret = _consume_sse_stream(ChunksOf(SseBytes, {}, 0), <<>>)

\* a data line behind data: [DONE] and boundaries within the lines: the line
\* behind contributed nothing
DoneWitness ==
    /\ SseCalled /\ call_arg.fail = <<>>
    /\ call_arg.lines = << <<"r", "a", "e", "nl">>, <<"done", "nl">> >>
    /\ call_arg.cuts = {1, 5}
    /\ call_ret.reasoning = <<"a">> /\ call_ret.content = <<>>

\* the character of a piece was lost at a chunk boundary
C26_Witness ==
    /\ SseCalled /\ call_arg.fail = <<>>
    /\ call_arg.lines = << <<"d", "c3", "a9", "e", "nl">> >>
    /\ call_arg.cuts = {2}
    /\ call_ret.content = <<>>
    /\ _consume_sse_stream(ChunksOf(SseBytes, {}, 0), <<>>).content = <<"e_acute">>

\* the chunks iter_content yielded before it raised
ChunksRead == SubSeq(ChunksOf(SseBytes, call_arg.cuts, 0), 1, call_arg.fail[1])

\* the locals after the chunks that were read
AfterChunksRead == ChunkLoop(ChunksRead, <<>>, SseState(<<>>, FALSE, <<>>, <<>>, FALSE))

\* C27 as stated: when reading the stream fails after any number of chunks the
\* call returns what was accumulated, possibly an empty pair, instead of
\* raising, and the response is closed
C27_FailureReturnsPartial ==
    (SseCalled /\ call_ret.failed) =>
        /\ ~call_ret.raised
        /\ call_ret.closed
        /\ <<call_ret.content, call_ret.reasoning>>
              = <<_consume_sse_stream(ChunksRead, <<>>).content,
                  _consume_sse_stream(ChunksRead, <<>>).reasoning>>

\* C27: when reading the stream fails, the response is closed; the call raises
\* the error when no piece of content or reasoning was accumulated from the
\* complete lines read so far, and otherwise returns what the chunks read so
\* far give (the unfinished last line included)
C27_PartialOrRaise ==
    (SseCalled /\ call_ret.failed) =>
        /\ call_ret.closed
        /\ call_ret.raised <=>
              (AfterChunksRead.content_parts = <<>> /\ AfterChunksRead.reasoning_parts = <<>>)
        /\ ~call_ret.raised =>
              <<call_ret.content, call_ret.reasoning>>
                  = <<_consume_sse_stream(ChunksRead, <<>>).content,
                      _consume_sse_stream(ChunksRead, <<>>).reasoning>>

\* reading failed behind the first of two chunks and the piece of the first
\* line was returned
C27_Witness ==
    /\ SseCalled /\ call_ret.failed /\ ~call_ret.raised
    /\ call_arg.fail = <<1>>
    /\ Len(call_arg.lines) = 2
    /\ call_arg.cuts = {4}
    /\ call_ret.reasoning = <<"a">>

\* reading failed before the first chunk and the call raised
C27_WitnessRaised ==
    /\ SseCalled /\ call_ret.failed /\ call_ret.raised
    /\ call_arg.fail = <<0>>
    /\ call_arg.lines # <<>>
    /\ call_ret.closed

----------------------------------------------------------------------------
(* Properties of load_noise_rules *)

\* the values load_noise_rules has returned to its callers
LoadedValues == {loader[t].ret : t \in {u \in Threads : loader[u].ret # <<>>}}

\* C28 as stated: under any interleaving of concurrent first calls of
\* load_noise_rules the rule files are read and _CACHE is assigned at most
\* once, and every caller gets the same value
C28_InitialisedOnce ==
    /\ rule_reads <= 1
    /\ cache_writes <= 1
    /\ Cardinality(LoadedValues) <= 1

\* two threads have both read the rule files and assigned _CACHE, and they
\* returned the tuples of different reads
C28_Witness ==
    /\ rule_reads = 2 /\ cache_writes = 2
    /\ loader[1].at = "done" /\ loader[2].at = "done"
    /\ loader[1].ret # loader[2].ret

\* every thread reads the files at most once, however often it calls, and
\* every call returns a tuple that was assigned to _CACHE
LoadedOncePerThread ==
    /\ rule_reads <= NumThreads
    /\ cache_writes <= rule_reads
    /\ \A t \in Threads : loader[t].at \in {"return", "done"} => _CACHE # <<>>
    /\ \A t \in Threads : loader[t].at = "done" => loader[t].ret # <<>>

----------------------------------------------------------------------------
(* Properties of the runtime configuration and of setup_logging *)

LastCall(fn) == runtime_ret # <<>> /\ runtime_ret.fn = fn

\* C29: get_config raises the initialization error exactly when no
\* init_runtime has completed since process start or since the last reset, and
\* returns the configuration of the last init_runtime otherwise; after the
\* reset hook the configuration is unset and no marked handler is left.
C29_ConfigOnlyAfterInit ==
    /\ LastCall("get_config") =>
          /\ runtime_ret.out.raised <=> completed_inits = 0
          /\ runtime_ret.out.raised => runtime_ret.out.error = "RuntimeError"
          /\ ~runtime_ret.out.raised => <<runtime_ret.out.value>> = _RUNTIME_CONFIG
    /\ LastCall("_reset_runtime_for_tests") =>
          /\ _RUNTIME_CONFIG = <<>>
          /\ completed_inits = 0
          /\ \A i \in DOMAIN root_handlers : ~root_handlers[i].marked
    /\ (_RUNTIME_CONFIG = <<>>) <=> (completed_inits = 0)

\* get_config returned the configuration of the second init_runtime
C29_Witness ==
    /\ LastCall("get_config")
    /\ ~runtime_ret.out.raised
    /\ completed_inits = 2
    /\ llm_configured(runtime_ret.out.value)

\* get_config raised after setup_logging was called without init_runtime
C29_WitnessRaised ==
    /\ LastCall("get_config")
    /\ runtime_ret.out.raised
    /\ _LOGGING_READY

MarkedCount == Len(SelectSeq(root_handlers, LAMBDA h : h.marked))

\* C30: after any sequence of init_runtime, setup_logging and reset calls the
\* root logger carries at most one marked handler, and exactly one after every
\* completed init_runtime or setup_logging.
C30_OneMarkedHandler ==
    /\ MarkedCount <= 1
    /\ ((LastCall("init_runtime") \/ LastCall("setup_logging")) /\ ~runtime_ret.out.raised)
          => MarkedCount = 1
    /\ _LOGGING_READY => MarkedCount = 1

\* a second init_runtime, with a handler of other code attached in between:
\* one marked handler, at the level of the second call
C30_Witness ==
    /\ LastCall("init_runtime") /\ ~runtime_ret.out.raised
    /\ completed_inits = 2
    /\ Len(root_handlers) = 2
    /\ MarkedCount = 1
    /\ root_handlers[1] = Handler(TRUE, "DEBUG")

\* C31 as stated: once a configuration is set, it keeps its value in every
\* step that is no reset, further init_runtime calls included.
C31_SetOnce ==
    [][(_RUNTIME_CONFIG # <<>> /\ _RUNTIME_CONFIG' # <<>>)
          => _RUNTIME_CONFIG' = _RUNTIME_CONFIG]_vars

\* C31 amended: the runtime configuration changes only in a step of
\* init_runtime that completed, which sets it to the configuration that call
\* built and returned, and in a step of the reset hook, which unsets it;
\* get_config, setup_logging and an init_runtime that the parser ends leave
\* it as it is.
C31_SetByEveryInit ==
    [][_RUNTIME_CONFIG' # _RUNTIME_CONFIG =>
          \/ /\ runtime_ret'.fn = "init_runtime"
             /\ ~runtime_ret'.out.raised
             /\ _RUNTIME_CONFIG' = <<runtime_ret'.out.value>>
          \/ /\ runtime_ret'.fn = "_reset_runtime_for_tests"
             /\ _RUNTIME_CONFIG' = <<>>]_vars

\* a second init_runtime completed in another environment than the first one
\* of this process, and get_config returned what it built
C31_Witness ==
    /\ LastCall("get_config")
    /\ ~runtime_ret.out.raised
    /\ completed_inits = 2
    /\ runtime_ret.out.value # cfg
    /\ <<runtime_ret.out.value>> = _RUNTIME_CONFIG

UnmarkedCount == Len(SelectSeq(root_handlers, LAMBDA h : ~h.marked))

\* C40 as stated: no step of setup_logging, init_runtime or the reset hook
\* detaches a handler without the marker.
C40_UnmarkedKept ==
    [][Len(SelectSeq(root_handlers', LAMBDA h : ~h.marked)) >= UnmarkedCount]_vars

\* C40 amended: unmarked handlers are detached only by the setup_logging (or
\* init_runtime) that finds logging not yet initialised: it empties the
\* handler list and attaches its own handler alone.  Once logging is
\* initialised, setup_logging and init_runtime keep every unmarked handler,
\* and the reset hook keeps them too.
C40_UnmarkedKeptOnceReady ==
    [][Len(SelectSeq(root_handlers', LAMBDA h : ~h.marked)) < UnmarkedCount =>
          /\ ~_LOGGING_READY
          /\ _LOGGING_READY'
          /\ runtime_ret'.fn \in {"init_runtime", "setup_logging"}
          /\ root_handlers' = <<Handler(TRUE, root_handlers'[1].level)>>]_vars

\* setup_logging was called with logging initialised and the handler of
\* other code is still attached behind the marked one
C40_Witness ==
    /\ LastCall("setup_logging")
    /\ _LOGGING_READY
    /\ Len(root_handlers) = 2
    /\ root_handlers[1].marked
    /\ ~root_handlers[2].marked

\* the reset hook ran with a handler of other code attached and left it
C40_WitnessReset ==
    /\ LastCall("_reset_runtime_for_tests")
    /\ ~_LOGGING_READY
    /\ root_handlers = <<Handler(FALSE, "NOTSET")>>

----------------------------------------------------------------------------
(* Properties of build_config *)

Built == call_fn = "build_config"

\* the field of the configuration a flag sets
FlagField(config, flag) ==
    CASE flag = "--proxy" -> config.proxy
      [] flag = "--cf-worker" -> config.cf_worker_url
      [] flag = "--openai-api-key" -> config.openai_api_key
      [] flag = "--openai-base-url" -> config.openai_base_url
      [] flag = "--openai-model" -> <<config.openai_model>>
      [] flag = "--log-level" -> <<config.log_level>>

\* the field when the optional text source is the one used: stripped, and
\* blank or absent (or, for the log level, no level name) replaced by the default
FieldFrom(flag, source) ==
    LET text == IF source = <<>> THEN <<>> ELSE Strip(source[1])
    IN CASE flag = "--openai-model" -> IF text = <<>> THEN <<<<"gpt-4o">>>> ELSE <<text>>
         [] flag = "--log-level" ->
                IF text \in {<<"debug">>, <<"DEBUG">>} THEN <<<<"DEBUG">>>>
                ELSE IF text = <<"ERROR">> THEN <<<<"ERROR">>>>
                ELSE <<<<"INFO">>>>
         [] OTHER -> IF text = <<>> THEN <<>> ELSE <<text>>

\* C32: for each of the six flags, when the flag is given its value is the one
\* used for the field, whatever the variable holds; when it is absent the
\* value of the variable, or the default, is used.
C32_FlagBeatsVariable ==
    Built =>
        \A flag \in Flags :
            FlagField(call_ret.config, flag) =
                FieldFrom(flag, IF call_arg.args[flag] # <<>> THEN call_arg.args[flag]
                                ELSE call_arg.env[FlagVar(flag)])

\* --proxy and PROXY are both given, with different values, and the field
\* holds the value of the flag
C32_Witness ==
    /\ Built
    /\ call_arg.args["--proxy"] = <<<<" ", "cli", " ">>>>
    /\ call_arg.env["PROXY"] = <<<<" ", "env">>>>
    /\ call_ret.config.proxy = <<<<"cli">>>>

\* --log-level is absent and LOG_LEVEL is used
C32_WitnessAbsent ==
    /\ Built
    /\ call_arg.args["--log-level"] = <<>>
    /\ call_arg.env["LOG_LEVEL"] = <<<<"ERROR">>>>
    /\ call_ret.config.log_level = <<"ERROR">>

\* the field of the configuration an integer, boolean or choice variable sets
KeyField(config, key) ==
    CASE key = "MAX_TOKEN_LIMIT" -> config.max_token_limit
      [] key = "FETCH_TIMEOUT_S" -> config.fetch_timeout_s
      [] key = "SEARCH_TIMEOUT_S" -> config.search_timeout_s
      [] key = "SEARCH_RESULT_LIMIT" -> config.search_result_limit
      [] key = "PLAYWRIGHT_TIMEOUT_MS" -> config.playwright_timeout_ms
      [] key = "PLAYWRIGHT_CHALLENGE_WAIT" -> config.playwright_challenge_wait
      [] key = "EXTRACTION_MARKDOWN_MIN_CHARS" -> config.extraction.markdown_min_chars
      [] key = "EXTRACTION_TEXT_MIN_CHARS" -> config.extraction.text_min_chars
      [] key = "SEARCH_MAX_PER_DOMAIN" -> config.search_max_per_domain
      [] key = "PLAYWRIGHT_FALLBACK" -> config.playwright_fallback
      [] key = "PW_HEADLESS" -> config.playwright.headless
      [] key = "EXTRACTION_STRATEGY" -> config.extraction.strategy
      [] key = "LOG_LEVEL" -> config.log_level

\* the documented default of the variable
DocumentedDefault(key) ==
    CASE key = "MAX_TOKEN_LIMIT" -> 10000
      [] key = "FETCH_TIMEOUT_S" -> 15
      [] key = "SEARCH_TIMEOUT_S" -> 60
      [] key = "SEARCH_RESULT_LIMIT" -> 25
      [] key = "PLAYWRIGHT_TIMEOUT_MS" -> 60000
      [] key = "PLAYWRIGHT_CHALLENGE_WAIT" -> 20
      [] key = "EXTRACTION_MARKDOWN_MIN_CHARS" -> 120
      [] key = "EXTRACTION_TEXT_MIN_CHARS" -> 200
      [] key = "SEARCH_MAX_PER_DOMAIN" -> 2
      [] key = "PLAYWRIGHT_FALLBACK" -> TRUE
      [] key = "PW_HEADLESS" -> TRUE
      [] key = "EXTRACTION_STRATEGY" -> "quality"
      [] key = "LOG_LEVEL" -> <<"INFO">>

MinimumOf(key) == IF key = "SEARCH_MAX_PER_DOMAIN" THEN 0 ELSE 1

\* the value of the variable is one its parser accepts
ValidSetting(key, text) ==
    CASE key \in IntKeys ->
             /\ Len(Strip(text)) = 1
             /\ Strip(text)[1] \in IntUnits
             /\ IntValue(Strip(text)[1]) >= MinimumOf(key)
      [] key \in BoolKeys ->
             Strip(text) \in {<<"1">>, <<"true">>, <<"yes">>, <<"on">>, <<"0">>, <<"false">>,
                              <<"no">>, <<"off">>, <<"OFF">>}
      [] key = "EXTRACTION_STRATEGY" ->
             Strip(text) \in {<<"quality">>, <<"balanced">>, <<"speed">>, <<"Speed">>}
      [] key = "LOG_LEVEL" -> Strip(text) \in {<<"ERROR">>, <<"debug">>} \/ text = <<>>

Noted(key) ==
    \E i \in DOMAIN call_ret.stderr :
        call_ret.stderr[i].prefix = "[config]" /\ call_ret.stderr[i].field = key

\* C33: build_config returns a configuration for every environment; each
\* integer, boolean or choice variable whose value does not parse, is no
\* allowed choice or is below the minimum leaves its field at the documented
\* default and a "[config]" line about it on stderr, and a variable that is
\* absent or valid leaves no line.
C33_InvalidFallsBack ==
    Built =>
        \A key \in IntKeys \cup BoolKeys \cup {"EXTRACTION_STRATEGY", "LOG_LEVEL"} :
            LET value == call_arg.env[key]
                ignored == key = "LOG_LEVEL" /\ call_arg.args["--log-level"] # <<>>
            IN /\ (value # <<>> /\ ~ValidSetting(key, value[1]) /\ ~ignored) =>
                      /\ KeyField(call_ret.config, key) = DocumentedDefault(key)
                      /\ Noted(key)
               /\ (value = <<>> /\ ~ignored) =>
                      /\ KeyField(call_ret.config, key) = DocumentedDefault(key)
                      /\ ~Noted(key)
               /\ (value # <<>> /\ ValidSetting(key, value[1]) /\ ~ignored) => ~Noted(key)

\* an integer that does not parse and an integer below its minimum, both
\* replaced by the default, with two lines on stderr
C33_Witness ==
    /\ Built
    /\ call_arg.env["PLAYWRIGHT_TIMEOUT_MS"] = <<<<"abc">>>>
    /\ call_arg.env["SEARCH_MAX_PER_DOMAIN"] = <<<<"-1">>>>
    /\ call_ret.config.playwright_timeout_ms = 60000
    /\ call_ret.config.search_max_per_domain = 2
    /\ Len(call_ret.stderr) = 2

\* a choice outside the allowed ones and a boolean that is none
C33_WitnessChoice ==
    /\ Built
    /\ call_arg.env["EXTRACTION_STRATEGY"] = <<<<"fast">>>>
    /\ call_arg.env["PW_HEADLESS"] = <<<<"maybe">>>>
    /\ call_ret.config.extraction.strategy = "quality"
    /\ call_ret.config.playwright.headless
    /\ Noted("EXTRACTION_STRATEGY") /\ Noted("PW_HEADLESS")

\* the variables that hold an empty or whitespace-only text
BlankKeys == {key \in EnvKeySet : call_arg.env[key] # <<>> /\ Strip(call_arg.env[key][1]) = <<>>}

Unset(env, key) == [env EXCEPT ![key] = <<>>]

\* C34: a variable with an empty or whitespace-only value gives the same
\* AppConfig as the same environment without that variable, for every variable
\* build_config reads.
C34_BlankIsUnset ==
    Built =>
        \A key \in BlankKeys :
            call_ret.config = BuildConfig(call_arg.args, Unset(call_arg.env, key)).config

\* the same for every variable but PW_VIEWPORT
BlankIsUnsetButViewport ==
    Built =>
        \A key \in BlankKeys \ {"PW_VIEWPORT"} :
            call_ret.config = BuildConfig(call_arg.args, Unset(call_arg.env, key)).config

\* PW_VIEWPORT is blank and the configuration has no viewport, where the
\* environment without PW_VIEWPORT gives 1366x768
C34_Witness ==
    /\ Built
    /\ call_arg.env["PW_VIEWPORT"] = <<<<" ">>>>
    /\ call_ret.config.playwright.viewport = <<>>
    /\ BuildConfig(call_arg.args, Unset(call_arg.env, "PW_VIEWPORT")).config.playwright.viewport
           = <<[width |-> 1366, height |-> 768]>>

----------------------------------------------------------------------------
(* Properties of load_env_file *)

RECURSIVE Definitions(_, _)
\* the definitions of a file, in the order of the file
Definitions(lines, idx) ==
    IF idx > Len(lines) THEN <<>>
    ELSE IF ~ParseLine(lines, idx).defined THEN Definitions(lines, idx + 1)
    ELSE <<ParseLine(lines, idx)>> \o Definitions(lines, ParseLine(lines, idx).idx + 1)

FileDefinitions == IF call_arg.file = <<>> THEN <<>> ELSE Definitions(call_arg.file[1], 1)

\* C35: load_env_file leaves every variable that is present in the
\* environment at its value, adds only variables the file defines, and gives
\* each variable it adds the value of its first definition in the file.
C35_OnlyMissingSet ==
    call_fn = "load_env_file" =>
        /\ \A key \in DOMAIN call_arg.environ :
               key \in DOMAIN call_ret /\ call_ret[key] = call_arg.environ[key]
        /\ \A key \in DOMAIN call_ret \ DOMAIN call_arg.environ :
               \E i \in DOMAIN FileDefinitions :
                   /\ FileDefinitions[i].key = key
                   /\ \A j \in 1..(i - 1) : FileDefinitions[j].key # key
                   /\ call_ret[key] = FileDefinitions[i].value

\* the file defines A twice, with 1 and then 3, and B, which is present in
\* the environment with another value: A is 1 and B is unchanged
C35_Witness ==
    /\ call_fn = "load_env_file"
    /\ call_arg.file = << << <<"A", "=", "1">>, <<"export", " ", "A", "=", "3">> >> >>
    /\ <<"A">> \notin DOMAIN call_arg.environ
    /\ call_ret[<<"A">>] = <<"1">>
    /\ call_ret[<<"C">>] = <<"0">>

\* B is present and the file defines it with another value
C35_WitnessPresent ==
    /\ call_fn = "load_env_file"
    /\ call_arg.file # <<>>
    /\ \E i \in DOMAIN FileDefinitions :
           FileDefinitions[i].key = <<"B">> /\ FileDefinitions[i].value = <<"1">>
    /\ <<"B">> \in DOMAIN call_arg.environ
    /\ call_ret[<<"B">>] = <<"0">>

----------------------------------------------------------------------------
(* Properties of the fetch stages *)

\* a returned dict with markdown or text, success=true and blocked=true
BlockedContent(r) ==
    /\ r.success
    /\ DOMAIN r \cap {"markdown", "text"} # {}
    /\ Get(r, "blocked", FALSE)

\* quality_score >= 65, or the degraded fallback
GoodOrDegraded(r) ==
    \/ r.quality_score >= 65
    \/ r.extractor = "meta:blocked" /\ r.degraded

\* fetch returned its first result with blocked=true and playwright_error added
ReturnedAugmented ==
    /\ FetchReturned
    /\ fetch_why = "blocked"
    /\ pw_result # <<>>
    /\ ~pw_result[1].success

\* C36 as stated: every successful text or markdown result of fetch or of
\* _fetch_with_playwright with blocked=true has quality_score >= 65 or is the
\* degraded fallback (extractor "meta:blocked", degraded=true).
C36_BlockedNeverLowQuality ==
    (fetch_pc = "done" /\ BlockedContent(fetch_ret[1])) => GoodOrDegraded(fetch_ret[1])

\* C36 amended: a result built from a page whose HTML looks blocked (by the
\* plain-GET stage of fetch or by _fetch_with_playwright) has quality_score
\* >= 65 or is the degraded fallback.  The result fetch returns after a failed
\* browser retry for blocked-looking markdown is its first result with
\* blocked=true set afterwards: it keeps the extractor, the quality_score and
\* the markdown of that result, whatever they are.
C36_BlockedPageNeverLowQuality ==
    /\ (fetch_pc = "done" /\ BlockedContent(fetch_ret[1]) /\ ~ReturnedAugmented)
          => GoodOrDegraded(fetch_ret[1])
    /\ ReturnedAugmented =>
          /\ BlockedContent(fetch_ret[1])
          /\ fetch_ret[1].extractor = fetch_result[1].extractor
          /\ fetch_ret[1].quality_score = fetch_result[1].quality_score
          /\ fetch_ret[1].markdown = fetch_result[1].markdown
          /\ fetch_ret[1].degraded = fetch_result[1].degraded

\* the browser fetched a blocked page whose best candidate scored below 65 and
\* the degraded fallback was returned
C36_Witness ==
    /\ fetch_pc = "done"
    /\ BlockedContent(fetch_ret[1])
    /\ fetch_ret[1].via_playwright
    /\ fetch_ret[1].extractor = "meta:blocked"
    /\ fetch_ret[1].degraded

\* the plain GET of fetch, with the browser disabled, on a blocked page
C36_WitnessHttp ==
    /\ FetchReturned
    /\ pw_result = <<>>
    /\ BlockedContent(fetch_ret[1])
    /\ ~fetch_ret[1].via_playwright
    /\ fetch_ret[1].extractor = "meta:blocked"

\* the first result, with a score below 65, came back with blocked=true
C36_WitnessAugmented ==
    /\ ReturnedAugmented
    /\ fetch_ret[1].quality_score < 65
    /\ fetch_ret[1].extractor # "meta:blocked"

\* C39: no dict fetch returns contains needs_playwright: whenever fetch._fetch
\* produced the stub, fetch awaited _fetch_with_playwright and returned its
\* result in place of the stub.
C39_StubNeverReturned ==
    /\ FetchReturned => "needs_playwright" \notin DOMAIN fetch_ret[1]
    /\ (fetch_entry = "fetch" /\ fetch_result # <<>>
            /\ "needs_playwright" \in DOMAIN fetch_result[1]) =>
          /\ cfg.playwright_fallback
          /\ fetch_why = "needs_playwright"
          /\ fetch_pc = "done" => (pw_result # <<>> /\ fetch_ret[1] = pw_result[1])

\* the stub of a preferred-browser host was replaced by the failure dict of
\* the browser fetch
C39_Witness ==
    /\ FetchReturned
    /\ fetch_why = "needs_playwright"
    /\ prefer_playwright_for_url(fetch_url)
    /\ fetch_result[1] = [success |-> FALSE, url |-> fetch_url, needs_playwright |-> TRUE]
    /\ ~pw_result[1].success
    /\ fetch_ret[1] = pw_result[1]

\* a call of the fetch tool that has passed fetch._fetch
FetchCalled == fetch_entry = "fetch" /\ fetch_pc \in {"playwright", "done"}

\* the dict fetch._fetch returned, <<>> when it raised
First ==
    IF fetch_result # <<>> THEN fetch_result
    ELSE IF fetch_pc = "done" /\ pw_result = <<>> /\ "error" \notin DOMAIN fetch_ret[1]
    THEN fetch_ret
    ELSE <<>>

ZhihuYielded == First # <<>> /\ Get(First[1], "via_zhihu_api", FALSE)

DiscourseYielded ==
    First # <<>> /\ Get(First[1], "extractor", "") = "adapter:discourse:topic_json"

\* the plain GET ended in a successful result
HttpYielded == First # <<>> /\ First[1].success /\ ~ZhihuYielded /\ ~DiscourseYielded

Started(stage) == \E i \in DOMAIN fetch_log : fetch_log[i].stage = stage

StageRank(stage) ==
    CASE stage = "zhihu" -> 1
      [] stage = "discourse" -> 2
      [] stage = "http" -> 4
      [] stage = "playwright" -> 5

\* the requests of the call were issued in the order of the stages
StagesInOrder ==
    \A i, j \in DOMAIN fetch_log :
        i < j => StageRank(fetch_log[i].stage) <= StageRank(fetch_log[j].stage)

\* the dicts of this call that hold an extractor tag
Extracted == {r \in {First, fetch_ret, pw_result} : r # <<>> /\ "extractor" \in DOMAIN r[1]}

\* C37 as stated: the stages run in the order Zhihu API, Discourse topic
\* JSON, stub, plain GET, browser; no stage is started after an earlier stage
\* yielded a result; for a preferred-browser host with the browser enabled
\* neither the plain GET nor the Content Extractor is run; with
\* playwright_fallback false the browser is never launched.
C37_StagesExclusive ==
    FetchCalled =>
        /\ StagesInOrder
        /\ ZhihuYielded => ~Started("discourse") /\ ~Started("http") /\ ~Started("playwright")
        /\ DiscourseYielded => ~Started("http") /\ ~Started("playwright")
        /\ HttpYielded => ~Started("playwright")
        /\ (prefer_playwright_for_url(fetch_url) /\ cfg.playwright_fallback) =>
              ~Started("http") /\ Extracted = {}
        /\ ~cfg.playwright_fallback => ~Started("playwright")

\* C37 amended: the stages run in that order, and an adapter or the plain GET
\* is started only when no earlier stage returned a result, raised, or
\* returned the stub.  The browser is the exception: it is launched, with
\* playwright_fallback true only, after an exception, after the stub, and also
\* after any stage returned a successful result whose markdown looks blocked.
\* For a preferred-browser host with the browser enabled the page is never
\* requested by the plain GET; the Content Extractor still runs for such a
\* host, on the content of the Zhihu API and on the HTML of the browser.
C37_StagesInOrder ==
    FetchCalled =>
        /\ StagesInOrder
        /\ ZhihuYielded => ~Started("discourse") /\ ~Started("http")
        /\ DiscourseYielded => ~Started("http")
        /\ Started("playwright") =>
              /\ cfg.playwright_fallback
              /\ fetch_why \in {"exception", "needs_playwright", "blocked"}
              /\ fetch_why = "exception" => First = <<>>
              /\ fetch_why = "needs_playwright" => "needs_playwright" \in DOMAIN First[1]
              /\ fetch_why = "blocked" =>
                    First[1].success /\ looks_like_blocked_text(First[1].markdown)
        /\ (prefer_playwright_for_url(fetch_url) /\ cfg.playwright_fallback) =>
              /\ ~Started("http")
              /\ \A r \in Extracted :
                     Get(r[1], "via_zhihu_api", FALSE) \/ Get(r[1], "via_playwright", FALSE)
        /\ ~cfg.playwright_fallback => ~Started("playwright")

\* a topic URL: the topic JSON gave nothing, the plain GET of the page gave
\* the stub, and the browser was launched
C37_Witness ==
    /\ FetchReturned
    /\ Len(fetch_log) = 3
    /\ fetch_log[1].stage = "discourse"
    /\ fetch_log[2].stage = "http"
    /\ fetch_log[3].stage = "playwright"
    /\ fetch_why = "needs_playwright"

\* a preferred-browser host, the browser enabled: the Zhihu API gave nothing,
\* the stub was made without a plain GET, and the browser result holds what
\* the Content Extractor made of the browser's HTML
C37_WitnessPreferred ==
    /\ FetchReturned
    /\ prefer_playwright_for_url(fetch_url)
    /\ Started("zhihu") /\ ~Started("http") /\ Started("playwright")
    /\ fetch_ret[1].success
    /\ fetch_ret[1].via_playwright
    /\ "extractor" \in DOMAIN fetch_ret[1]

\* the Zhihu API yielded a result whose markdown looks blocked, and the
\* browser was launched after it
C37_WitnessAfterResult ==
    /\ FetchReturned
    /\ ZhihuYielded
    /\ Started("playwright")

----------------------------------------------------------------------------
(* Properties of the early stop of _extract_best_content *)

\* the candidate is long and good enough for the early stop of the strategy
MeetsEarlyStop(item, strategy, output_format) ==
    /\ item.char_len >= Max(MinChars(output_format), _INTERNAL_TUNING(strategy).early_stop_chars)
    /\ item.quality_score >= _INTERNAL_TUNING(strategy).early_stop_quality

\* C38: _extract_best_content returns early, without running the remaining
\* extractors and without the ranking, only under the quality strategy and
\* only with a candidate of char_len >= max(min_chars, early_stop_chars) and
\* quality_score >= early_stop_quality, and under quality it does so at the
\* first such candidate; under balanced and speed no candidate ends the
\* pipeline early and the result is the one the ranking selects.
C38_EarlyStopOnlyQuality ==
    /\ call_fn = "_run_candidates" =>
          /\ ~call_arg.early
          /\ call_arg.strategy = "quality" =>
                \A i \in DOMAIN call_arg.candidates :
                    ~MeetsEarlyStop(call_arg.candidates[i], "quality", call_arg.output_format)
    /\ (call_fn = "_extract_best_content" /\ call_arg.early) =>
          /\ call_arg.strategy = "quality"
          /\ call_arg.candidates # <<>>
          /\ call_ret = <<call_arg.candidates[Len(call_arg.candidates)]>>
          /\ call_ret[1].char_len >= Max(MinChars(call_arg.output_format), 900)
          /\ call_ret[1].quality_score >= 80
    /\ (call_fn = "_extract_best_content" /\ ~call_arg.early) =>
          /\ call_ret = <<SelectCandidate(call_arg.strategy, call_arg.output_format,
                                          call_arg.page, call_arg.candidates)>>
          /\ call_arg.strategy = "quality" =>
                \A i \in DOMAIN call_arg.candidates :
                    ~MeetsEarlyStop(call_arg.candidates[i], "quality", call_arg.output_format)

\* under quality the first adapter candidate ended the call: one candidate, returned
C38_Witness ==
    /\ call_fn = "_extract_best_content"
    /\ call_arg.early
    /\ call_arg.strategy = "quality"
    /\ Len(call_arg.candidates) = 1
    /\ call_ret[1].quality_score = 90 /\ call_ret[1].char_len = 1000

\* under balanced the first candidate met the early-stop numbers of the
\* balanced tuning, two more extractors ran, and the ranking chose
C38_WitnessBalanced ==
    /\ call_fn = "_extract_best_content"
    /\ ~call_arg.early
    /\ call_arg.strategy = "balanced"
    /\ Len(call_arg.candidates) = 3
    /\ MeetsEarlyStop(call_arg.candidates[1], "balanced", call_arg.output_format)

====
